---- MODULE Spec2Model ----
(***************************************************************************)
(* Tickety-Bot: a Discord support-ticket bot.  The repository holds two    *)
(* implementations of the same bot:                                        *)
(*   A  src/index.js (bot + db_config.js) with src/unnamed/part_000        *)
(*      (commands.js): MongoDB-backed configuration, tickets named         *)
(*      ticket-<n>, claim state kept in the channel topic;                 *)
(*   B  src/unnamed/part_001 (commands.js + index.js): config.json-backed  *)
(*      configuration, tickets named <topic>-<username>, claim and lock    *)
(*      state kept in the fields of the control-panel embed.               *)
(* Definitions of A carry the suffix _A, those of B the suffix _B.         *)
(* Strings the code parses (channel names, channel topics, topic keys,     *)
(* user ids) are sequences of one-character strings; the literal parts of  *)
(* a channel topic are single tokens.                                      *)
(***************************************************************************)
EXTENDS Integers, Sequences, FiniteSets, Bags, TLC

VARIABLES
    impl,       \* which implementation runs: "A" or "B"
    store,      \* the configuration store: guild -> configuration document
    channels,   \* every channel ever created, by channel id (index)
    modals,     \* creation forms shown and not yet submitted: a bag of <<user, topic value>>
    prompts,    \* close-confirmation prompts shown and not yet answered: <<channel, user>>
    cooldowns,  \* client.ticketCooldowns: user -> expiry time (0: no entry)
    timers,     \* pending cooldown timers: <<user, due time>> (deletion timers are
                \* counted on their channel)
    now,        \* the clock (Date.now()), in minutes
    inflight,   \* configuration commands between their read and their write of the
                \* store: process -> phase, command and the configuration it read
    reply       \* what the requester of the last interaction was told

vars == <<impl, store, channels, modals, prompts, cooldowns, timers, now, inflight, reply>>

----------------------------------------------------------------------------
(* Bounds of the model *)

MaxTopicList == 2      \* topic lists explored up to this length
MaxChannels == 2       \* channels created in one behaviour
MaxTime == 4
\* forms one user may have open at once for one topic (one per client device)
MaxForms == 2
\* Discord calls that may fail within one close
MaxFailures == 2
\* close sequences that may run on one ticket before its deletion timer fires
MaxCloses == 2           \* the clock stops here

----------------------------------------------------------------------------
(* Values *)

\* the interactions whose configuration commands may overlap
Procs == {"p1", "p2"}
Idle == [phase |-> "idle"]
NoneInFlight == [p \in Procs |-> Idle]

Impls == {"A", "B"}
Guilds == {"g1", "g2"}
Null == "null"
Categories == {"cat1", "cat2"}
SupportRole == "role1"
LogsChannel == "logs1"

\* u1, u2: members; s1, s2: hold the support role; adm: an administrator without it
Users == {"u1", "u2", "s1", "s2", "adm"}
\* Discord ids are decimal strings; one may be a prefix of another
UserId(u) == CASE u = "u1" -> <<"1">> [] u = "u2" -> <<"1", "2">> [] u = "s1" -> <<"3">>
               [] u = "s2" -> <<"4">> [] OTHER -> <<"5">>
Username(u) == <<u>>
HasSupportRole(u) == u \in {"s1", "s2"}
IsAdministrator(u) == u = "adm"

Lower(c) == CASE c = "A" -> "a" [] c = "B" -> "b" [] c = "T" -> "t" [] c = "U" -> "u" [] OTHER -> c
LowerAlpha == {"a", "b", "c", "e", "i", "k", "t", "u", "x"}
Digits == {"0", "1", "2", "3", "4", "5", "6", "7", "8", "9"}
IsSpace(c) == c = " "

\* String.prototype.toLowerCase
MapLower(s) == [i \in 1..Len(s) |-> Lower(s[i])]

RECURSIVE Keep(_, _)
\* the characters of s that are in the class S, in order (replace(/[^S]/g, ''))
Keep(s, S) == IF s = <<>> THEN <<>>
              ELSE (IF Head(s) \in S THEN <<Head(s)>> ELSE <<>>) \o Keep(Tail(s), S)

RECURSIVE SpacesToUnderscore(_)
\* replace(/\s+/g, '_'): every run of whitespace becomes one underscore
SpacesToUnderscore(s) ==
    IF s = <<>> THEN <<>>
    ELSE IF IsSpace(Head(s))
         THEN IF Len(s) > 1 /\ IsSpace(s[2]) THEN SpacesToUnderscore(Tail(s))
              ELSE <<"_">> \o SpacesToUnderscore(Tail(s))
         ELSE <<Head(s)>> \o SpacesToUnderscore(Tail(s))

KeyChars == LowerAlpha \cup Digits \cup {"_"}

----------------------------------------------------------------------------
(* Replies: the kind of message the requester gets, and who can see it *)

NoReply == [kind |-> "none", vis |-> "none"]
Ephemeral(k) == [kind |-> k, vis |-> "ephemeral"]
Public(k) == [kind |-> k, vis |-> "public"]

----------------------------------------------------------------------------
(* The configuration store *)

ConfigFields == {"categoryId", "logsChannelId", "supportRoleId"}

\* A guild without a stored document (A: before the first read; B: no key in config.json)
DefaultConfig ==
    [present |-> FALSE, categoryId |-> Null, logsChannelId |-> Null,
     supportRoleId |-> Null, ticketTopics |-> <<>>]

\* A: what the read returns; on a database error the unconfigured default
getGuildConfig(st, g, ok) ==
    IF ok THEN [st[g] EXCEPT !.present = TRUE] ELSE [DefaultConfig EXCEPT !.present = TRUE]

\* A: the read is a findOneAndUpdate with upsert: a missing document is created
UpsertOnRead(st, g, ok) == IF ok THEN [st EXCEPT ![g].present = TRUE] ELSE st

\* JavaScript's x || null
OrNull(x) == IF x = Null THEN Null ELSE x

\* A: full overwrite of the four non-id fields; a database error is only logged
setGuildConfig(st, g, newConfig, ok) ==
    IF ok
    THEN [st EXCEPT ![g] = [present |-> TRUE,
                            categoryId |-> OrNull(newConfig.categoryId),
                            logsChannelId |-> OrNull(newConfig.logsChannelId),
                            supportRoleId |-> OrNull(newConfig.supportRoleId),
                            ticketTopics |-> newConfig.ticketTopics]]
    ELSE st

\* A: $set of the named fields only (update: a function from some fields to values)
updateGuildConfig(st, g, update, ok) ==
    IF ok
    THEN [st EXCEPT ![g] = [present |-> TRUE,
                            categoryId |-> IF "categoryId" \in DOMAIN update
                                           THEN update["categoryId"] ELSE @.categoryId,
                            logsChannelId |-> IF "logsChannelId" \in DOMAIN update
                                              THEN update["logsChannelId"] ELSE @.logsChannelId,
                            supportRoleId |-> IF "supportRoleId" \in DOMAIN update
                                              THEN update["supportRoleId"] ELSE @.supportRoleId,
                            ticketTopics |-> @.ticketTopics]]
    ELSE st

\* B: the whole file; on a read or parse error the empty object
readConfig(st, ok) == IF ok THEN st ELSE [g \in Guilds |-> DefaultConfig]

\* B: the whole file is rewritten; a write error is only logged
writeConfig(st, config, ok) == IF ok THEN config ELSE st

----------------------------------------------------------------------------
(* Topics *)

TopicLimit == 25

\* /ticket-topic add value: (A) lower case, then strip all but a-z 0-9 _
sanitizeValue_A(raw) == Keep(MapLower(raw), KeyChars)

\* (B) lower case, whitespace runs to "_", then strip all but a-z 0-9 _
sanitizeValue_B(raw) == Keep(SpacesToUnderscore(MapLower(raw)), KeyChars)

\* the list lengths at which an add is explored: short lists, and lists at the limit
Explored(n) == n < MaxTopicList \/ n \in (TopicLimit - 1)..(TopicLimit + MaxTopicList - 1)

\* a membership test that finds nothing: the add command without its duplicate check
HasValueSkipped(topics, v) == FALSE

\* config.ticketTopics.some(t => t.value === value)
HasValue(topics, v) == \E i \in 1..Len(topics) : topics[i].value = v
FindTopic(topics, v) == topics[CHOOSE i \in 1..Len(topics) :
                                 /\ topics[i].value = v
                                 /\ \A j \in 1..(i - 1) : topics[j].value # v]
WithoutValue(topics, v) == SelectSeq(topics, LAMBDA t : t.value # v)
Values(topics) == {topics[i].value : i \in 1..Len(topics)}

Labels == {"General"}
\* the raw strings typed as a topic's value
RawValues == {<<"a">>, <<"A", " ">>, <<"b", "-">>, <<"-">>}
\* the description option: required in A, optional (and here left out) in B
DescriptionOf(i) == IF i = "A" THEN "desc" ELSE Null
DefaultDescription == "Click to open a ticket."

\* A: /ticket-topic add (part_000)
ticketTopicAdd_A(g, label, raw, description, rdOk, wrOk) ==
    /\ impl = "A"
    /\ description # Null
    /\ LET config == getGuildConfig(store, g, rdOk)
           st1 == UpsertOnRead(store, g, rdOk)
           value == sanitizeValue_A(raw)
           newTopic == [label |-> label, value |-> value,
                        description |-> description, emoji |-> Null]
       IN  IF HasValue(config.ticketTopics, value)
           THEN /\ store' = st1
                /\ reply' = Ephemeral("DuplicateTopicKey")
           ELSE /\ Explored(Len(config.ticketTopics))
                /\ store' = setGuildConfig(st1, g,
                               [config EXCEPT !.ticketTopics = Append(@, newTopic)], wrOk)
                /\ reply' = Ephemeral("TopicAdded")
    /\ UNCHANGED <<impl, inflight, channels, modals, prompts, cooldowns, timers, now>>

\* A: /ticket-topic remove (part_000): the value is compared as typed
ticketTopicRemove_A(g, valueToRemove, rdOk, wrOk) ==
    /\ impl = "A"
    /\ LET config == getGuildConfig(store, g, rdOk)
           st1 == UpsertOnRead(store, g, rdOk)
           kept == WithoutValue(config.ticketTopics, valueToRemove)
       IN  IF Len(kept) = Len(config.ticketTopics)
           THEN /\ store' = st1
                /\ reply' = Ephemeral("TopicNotFound")
           ELSE /\ store' = setGuildConfig(st1, g, [config EXCEPT !.ticketTopics = kept], wrOk)
                /\ reply' = Ephemeral("TopicRemoved")
    /\ UNCHANGED <<impl, inflight, channels, modals, prompts, cooldowns, timers, now>>

\* A: /ticket-config action:reset (part_000)
ticketConfigReset_A(g, rdOk, wrOk) ==
    /\ impl = "A"
    /\ store' = setGuildConfig(UpsertOnRead(store, g, rdOk), g,
                               [DefaultConfig EXCEPT !.present = TRUE], wrOk)
    /\ reply' = Ephemeral("ConfigReset")
    /\ UNCHANGED <<impl, inflight, channels, modals, prompts, cooldowns, timers, now>>

\* the partial updates /ticket-config can carry
ConfigUpdates ==
    UNION {[S -> Categories \cup {SupportRole, LogsChannel}] : S \in SUBSET ConfigFields}

WellFormedUpdate(u) ==
    /\ "categoryId" \in DOMAIN u => u["categoryId"] \in Categories
    /\ "logsChannelId" \in DOMAIN u => u["logsChannelId"] = LogsChannel
    /\ "supportRoleId" \in DOMAIN u => u["supportRoleId"] = SupportRole

\* A: /ticket-config with options (part_000); botPermsOk: the bot's permissions in
\* the category and logs channel named
ticketConfigUpdate_A(g, update, botPermsOk, rdOk, wrOk) ==
    /\ impl = "A"
    /\ WellFormedUpdate(update)
    /\ LET st1 == UpsertOnRead(store, g, rdOk)
       IN  IF ~botPermsOk /\ (DOMAIN update) \cap {"categoryId", "logsChannelId"} # {}
           THEN /\ store' = st1
                /\ reply' = Ephemeral("MissingExternalPermission")
           ELSE IF DOMAIN update = {}
           THEN /\ store' = st1
                /\ reply' = Ephemeral("ConfigView")
           ELSE /\ store' = updateGuildConfig(st1, g, update, wrOk)
                /\ reply' = Ephemeral("ConfigUpdated")
    /\ UNCHANGED <<impl, inflight, channels, modals, prompts, cooldowns, timers, now>>

\* B: /ticket-config (part_001): all three options are required
ticketConfig_B(g, category, botPermsOk, rdOk, wrOk) ==
    /\ impl = "B"
    /\ IF ~botPermsOk
       THEN /\ store' = store
            /\ reply' = Ephemeral("MissingExternalPermission")
       ELSE LET config == readConfig(store, rdOk)
                base == IF config[g].present THEN config[g]
                        ELSE [DefaultConfig EXCEPT !.present = TRUE]
                new == [base EXCEPT !.categoryId = category,
                                    !.logsChannelId = LogsChannel,
                                    !.supportRoleId = SupportRole]
            IN  /\ store' = writeConfig(store, [config EXCEPT ![g] = new], wrOk)
                /\ reply' = Ephemeral("ConfigUpdated")
    /\ UNCHANGED <<impl, inflight, channels, modals, prompts, cooldowns, timers, now>>

\* B: the router's guard on every interaction but /ticket-config (part_001 598-611)
RouterConfigured_B(g, rdOk) == readConfig(store, rdOk)[g].present

\* B: /ticket-topic add (part_001)
ticketTopicAdd_B(g, label, raw, description, rd1, rd2, wrOk) ==
    /\ impl = "B"
    /\ LET config == readConfig(store, rd2)
           guildConfig == config[g]
           value == sanitizeValue_B(raw)
           newTopic == [label |-> label, value |-> value,
                        description |-> IF description = Null THEN DefaultDescription
                                        ELSE description,
                        emoji |-> Null]
       IN  IF ~RouterConfigured_B(g, rd1) \/ ~guildConfig.present
              \/ guildConfig.categoryId = Null
           THEN store' = store /\ reply' = Ephemeral("NotConfigured")
           ELSE IF value = <<>>
           THEN store' = store /\ reply' = Ephemeral("InvalidTopicKey")
           ELSE IF HasValue(guildConfig.ticketTopics, value)
           THEN store' = store /\ reply' = Ephemeral("DuplicateTopicKey")
           ELSE IF Len(guildConfig.ticketTopics) >= TopicLimit
           THEN store' = store /\ reply' = Ephemeral("TopicLimitExceeded")
           ELSE /\ Explored(Len(guildConfig.ticketTopics))
                /\ store' = writeConfig(store,
                               [config EXCEPT ![g].ticketTopics = Append(@, newTopic)], wrOk)
                /\ reply' = Ephemeral("TopicAdded")
    /\ UNCHANGED <<impl, inflight, channels, modals, prompts, cooldowns, timers, now>>

\* B: /ticket-topic remove (part_001)
ticketTopicRemove_B(g, value, rd1, rd2, wrOk) ==
    /\ impl = "B"
    /\ LET config == readConfig(store, rd2)
           guildConfig == config[g]
           kept == WithoutValue(guildConfig.ticketTopics, value)
       IN  IF ~RouterConfigured_B(g, rd1) \/ ~guildConfig.present
              \/ guildConfig.categoryId = Null
           THEN store' = store /\ reply' = Ephemeral("NotConfigured")
           ELSE IF Len(kept) = Len(guildConfig.ticketTopics)
           THEN store' = store /\ reply' = Ephemeral("TopicNotFound")
           ELSE /\ store' = writeConfig(store, [config EXCEPT ![g].ticketTopics = kept], wrOk)
                /\ reply' = Ephemeral("TopicRemoved")
    /\ UNCHANGED <<impl, inflight, channels, modals, prompts, cooldowns, timers, now>>

\* the values a remove command may name: what can be stored and some raw strings
RemoveValues == {sanitizeValue_A(r) : r \in RawValues} \cup {sanitizeValue_B(r) : r \in RawValues}
                \cup {<<"A", " ">>}
\* the guild whose commands are explored
HomeGuilds == {"g1"}

----------------------------------------------------------------------------
(* The configuration commands run one at a time *)

InitEmpty ==
    /\ impl \in Impls
    /\ store = [g \in Guilds |-> DefaultConfig]
    /\ channels = <<>>
    /\ modals = EmptyBag
    /\ prompts = {}
    /\ cooldowns = [u \in Users |-> 0]
    /\ timers = {}
    /\ now = 0
    /\ inflight = NoneInFlight
    /\ reply = NoReply

\* F: the outcomes explored for the store's reads and writes (TRUE: the call succeeds)
NextTopicsOf(F) ==
    \/ \E g \in HomeGuilds, l \in Labels, r \in RawValues, rd, wr \in F :
          ticketTopicAdd_A(g, l, r, DescriptionOf("A"), rd, wr)
    \/ \E g \in HomeGuilds, v \in RemoveValues, rd, wr \in F :
          ticketTopicRemove_A(g, v, rd, wr)
    \/ \E g \in HomeGuilds, rd, wr \in F : ticketConfigReset_A(g, rd, wr)
    \/ \E g \in HomeGuilds, u \in ConfigUpdates, p \in BOOLEAN, rd, wr \in F :
          ticketConfigUpdate_A(g, u, p, rd, wr)
    \/ \E g \in HomeGuilds, c \in Categories, p \in BOOLEAN, rd, wr \in F :
          ticketConfig_B(g, c, p, rd, wr)
    \/ \E g \in HomeGuilds, l \in Labels, r \in RawValues, rd1, rd2, wr \in F :
          ticketTopicAdd_B(g, l, r, DescriptionOf("B"), rd1, rd2, wr)
    \/ \E g \in HomeGuilds, v \in RemoveValues, rd1, rd2, wr \in F :
          ticketTopicRemove_B(g, v, rd1, rd2, wr)

\* the store answers every call
NextTopics == NextTopicsOf({TRUE})

SpecTopics == InitEmpty /\ [][NextTopics]_vars

----------------------------------------------------------------------------
(* Claims about the topic registry *)

TopicsUnique ==
    \A g \in Guilds : \A i, j \in 1..Len(store[g].ticketTopics) :
        i # j => store[g].ticketTopics[i].value # store[g].ticketTopics[j].value

\* an add step whose sanitized value is already stored
DuplicateAddRejected ==
    \A g \in HomeGuilds, l \in Labels, r \in RawValues :
        /\ (ticketTopicAdd_A(g, l, r, DescriptionOf("A"), TRUE, TRUE)
                /\ sanitizeValue_A(r) \in Values(store[g].ticketTopics))
            => (reply'.kind = "DuplicateTopicKey"
                /\ store'[g].ticketTopics = store[g].ticketTopics)
        /\ (ticketTopicAdd_B(g, l, r, DescriptionOf("B"), TRUE, TRUE, TRUE)
                /\ sanitizeValue_B(r) \in Values(store[g].ticketTopics))
            => (reply'.kind = "DuplicateTopicKey"
                /\ store'[g].ticketTopics = store[g].ticketTopics)

\* C10: after any sequence of topic add and remove commands run one at a time, no two
\* stored topics of a guild have the same value, and an add whose sanitized value is
\* already stored is answered DuplicateTopicKey and leaves the list as it was.
C10_TopicValuesUnique == []TopicsUnique /\ [][DuplicateAddRejected]_vars

\* a duplicate add was just rejected on a list of two topics
C10_Witness ==
    /\ reply.kind = "DuplicateTopicKey"
    /\ Len(store["g1"].ticketTopics) = 2

\* every stored value is a non-empty string of lowercase letters, digits and underscores
StoredValuesWellFormed ==
    \A g \in Guilds : \A i \in 1..Len(store[g].ticketTopics) :
        LET v == store[g].ticketTopics[i].value
        IN  v # <<>> /\ \A k \in 1..Len(v) : v[k] \in KeyChars

\* an add step whose value has no character left after sanitization
EmptyAddRejected ==
    \A g \in HomeGuilds, l \in Labels, r \in RawValues :
        /\ (sanitizeValue_A(r) = <<>>
                /\ ticketTopicAdd_A(g, l, r, DescriptionOf("A"), TRUE, TRUE))
            => (reply'.kind = "InvalidTopicKey"
                /\ store'[g].ticketTopics = store[g].ticketTopics)
        /\ (sanitizeValue_B(r) = <<>>
                /\ ticketTopicAdd_B(g, l, r, DescriptionOf("B"), TRUE, TRUE, TRUE)
                /\ store[g].present /\ store[g].categoryId # Null)
            => (reply'.kind = "InvalidTopicKey"
                /\ store'[g].ticketTopics = store[g].ticketTopics)

\* C12: the value stored by a successful topic add is a non-empty string of lowercase
\* letters, digits and underscores; an add whose sanitized value is empty is answered
\* InvalidTopicKey and stores nothing.
C12_TopicKeySanitized == []StoredValuesWellFormed /\ [][EmptyAddRejected]_vars

----------------------------------------------------------------------------
(* Strings *)

Min(S) == CHOOSE x \in S : \A y \in S : x <= y
Max(S) == CHOOSE x \in S : \A y \in S : x >= y

\* String.prototype.startsWith
StartsWith(s, p) == Len(s) >= Len(p) /\ SubSeq(s, 1, Len(p)) = p
OccursAt(s, p, i) == i + Len(p) - 1 <= Len(s) /\ SubSeq(s, i, i + Len(p) - 1) = p
\* String.prototype.includes
Includes(s, p) == \E i \in 1..(Len(s) + 1) : OccursAt(s, p, i)

RECURSIVE DigitRun(_, _)
\* the longest run of digits of s that starts at i
DigitRun(s, i) == IF i <= Len(s) /\ s[i] \in Digits
                  THEN <<s[i]>> \o DigitRun(s, i + 1) ELSE <<>>

\* where the regular expression  p\d+  matches in s
DigitMatches(s, p) == {i \in 1..Len(s) : OccursAt(s, p, i) /\ DigitRun(s, i + Len(p)) # <<>>}

\* s.match(/p(\d+)/): the capture of the leftmost match, <<>> when there is none
MatchDigitsAfter(s, p) ==
    IF DigitMatches(s, p) = {} THEN <<>>
    ELSE DigitRun(s, Min(DigitMatches(s, p)) + Len(p))

\* s.replace(/p\d+/, ''): the leftmost match removed
RemoveDigitMatch(s, p) ==
    IF DigitMatches(s, p) = {} THEN s
    ELSE LET i == Min(DigitMatches(s, p))
             n == Len(p) + Len(DigitRun(s, i + Len(p)))
         IN  SubSeq(s, 1, i - 1) \o SubSeq(s, i + n, Len(s))

DigitChar(d) == CASE d = 0 -> "0" [] d = 1 -> "1" [] d = 2 -> "2" [] d = 3 -> "3"
                  [] d = 4 -> "4" [] d = 5 -> "5" [] d = 6 -> "6" [] d = 7 -> "7"
                  [] d = 8 -> "8" [] OTHER -> "9"
DigitValue(c) == CHOOSE d \in 0..9 : DigitChar(d) = c

RECURSIVE ToDigits(_)
\* a number as a decimal string
ToDigits(n) == IF n < 10 THEN <<DigitChar(n)>> ELSE ToDigits(n \div 10) \o <<DigitChar(n % 10)>>

RECURSIVE ParseInt(_)
\* parseInt(ds, 10) of a string of digits
ParseInt(ds) == IF ds = <<>> THEN 0
                ELSE 10 * ParseInt(SubSeq(ds, 1, Len(ds) - 1)) + DigitValue(ds[Len(ds)])

----------------------------------------------------------------------------
(* Topic lists at the limit *)

\* n topics added one after the other with the values "1", "2", ...
FullList(n) == [i \in 1..n |-> [label |-> "General", value |-> ToDigits(i),
                                 description |-> "desc", emoji |-> Null]]

\* a configured guild that holds one topic less than the limit, or as many
InitFull ==
    /\ impl \in Impls
    /\ \E n \in {TopicLimit - 1, TopicLimit} :
          store = [g \in Guilds |->
                     IF g \in HomeGuilds
                     THEN [present |-> TRUE, categoryId |-> "cat1",
                           logsChannelId |-> LogsChannel, supportRoleId |-> SupportRole,
                           ticketTopics |-> FullList(n)]
                     ELSE DefaultConfig]
    /\ channels = <<>>
    /\ modals = EmptyBag
    /\ prompts = {}
    /\ cooldowns = [u \in Users |-> 0]
    /\ timers = {}
    /\ now = 0
    /\ inflight = NoneInFlight
    /\ reply = NoReply

SpecLimit == InitFull /\ [][NextTopics]_vars

WithinLimit == \A g \in Guilds : Len(store[g].ticketTopics) <= TopicLimit

\* an add step of a new, well-formed value in a guild that holds TopicLimit topics
AddAtLimitRejected ==
    \A g \in HomeGuilds, l \in Labels, r \in RawValues :
        /\ (/\ Len(store[g].ticketTopics) >= TopicLimit
            /\ sanitizeValue_A(r) # <<>>
            /\ sanitizeValue_A(r) \notin Values(store[g].ticketTopics)
            /\ ticketTopicAdd_A(g, l, r, DescriptionOf("A"), TRUE, TRUE))
            => (reply'.kind = "TopicLimitExceeded"
                /\ store'[g].ticketTopics = store[g].ticketTopics)
        /\ (/\ Len(store[g].ticketTopics) >= TopicLimit
            /\ sanitizeValue_B(r) # <<>>
            /\ sanitizeValue_B(r) \notin Values(store[g].ticketTopics)
            /\ ticketTopicAdd_B(g, l, r, DescriptionOf("B"), TRUE, TRUE, TRUE))
            => (reply'.kind = "TopicLimitExceeded"
                /\ store'[g].ticketTopics = store[g].ticketTopics)

\* C11: adding a new topic to a guild that already has 25 topics is answered
\* TopicLimitExceeded and stores nothing, and no guild ever has more than 25 topics.
C11_TopicLimit == []WithinLimit /\ [][AddAtLimitRejected]_vars

----------------------------------------------------------------------------
(* Channels *)

Principals == {"everyone", "bot", SupportRole} \cup Users

\* a permission overwrite: ViewChannel and SendMessages, each allow, deny or unset
NoOverwrite == [present |-> FALSE, view |-> "unset", send |-> "unset"]
AllowViewSend == [present |-> TRUE, view |-> "allow", send |-> "allow"]
DenyView == [present |-> TRUE, view |-> "deny", send |-> "unset"]

\* permissionOverwrites of a new ticket (A 147-181, B 751-756)
CreationOverwrites(user, supportRoleId) ==
    [p \in Principals |->
        IF p = "everyone" THEN DenyView
        ELSE IF p \in {user, supportRoleId, "bot"} THEN AllowViewSend
        ELSE NoOverwrite]

\* the message with the ticket's buttons: its embed fields (B) and its button row
NoPanel == [exists |-> FALSE, claimedBy |-> <<>>, status |-> "", row |-> <<>>]
Unclaimed == <<"Unclaimed">>
Mention(u) == <<"<@">> \o UserId(u) \o <<">">>
\* A 200-218: Claim and Close
WelcomeMessage_A ==
    [exists |-> TRUE, claimedBy |-> <<>>, status |-> "",
     row |-> <<"ticket_claim", "ticket_close_confirm">>]
\* B 760-782: Claimed By, Status; Claim, Lock and Close
WelcomeMessage_B ==
    [exists |-> TRUE, claimedBy |-> Unclaimed, status |-> "Open",
     row |-> <<"ticket_claim", "ticket_lock", "ticket_close_start">>]

\* creator is not a field the bot stores: it records who the channel was created for
\* opened, logMsgs and dms count the messages about the ticket sent elsewhere (the
\* 'Ticket Opened' entry and the transcript in the logs channel, the direct message)
NewChannel(name, parent, topic, ow, panel, creator) ==
    [exists |-> TRUE, name |-> name, parent |-> parent, topic |-> topic, ow |-> ow,
     panel |-> panel, creator |-> creator,
     opened |-> 0, transcripts |-> 0, logMsgs |-> 0, dms |-> 0, notices |-> 0,
     warnings |-> 0, errors |-> 0, delTimers |-> 0]

ChannelIds == 1..Len(channels)
Live == {c \in ChannelIds : channels[c].exists}

TicketPrefix == <<"t", "i", "c", "k", "e", "t", "-">>

\* a numbering that counts the ticket-named channels of the category
getNextTicketCount(chs, categoryId) ==
    IF categoryId \notin Categories THEN 1
    ELSE Cardinality({c \in 1..Len(chs) : /\ chs[c].exists
                                          /\ chs[c].parent = categoryId
                                          /\ StartsWith(chs[c].name, TicketPrefix)}) + 1

\* A: 1 + the largest number among the ticket-named channels of the category
getNextTicketNumber(chs, categoryId) ==
    IF categoryId \notin Categories THEN 1
    ELSE LET ticketChannels == {c \in 1..Len(chs) : /\ chs[c].exists
                                                     /\ chs[c].parent = categoryId
                                                     /\ StartsWith(chs[c].name, TicketPrefix)}
             numbers == {ParseInt(MatchDigitsAfter(chs[c].name, TicketPrefix)) :
                            c \in {d \in ticketChannels :
                                     MatchDigitsAfter(chs[d].name, TicketPrefix) # <<>>}}
         IN  Max(numbers \cup {0}) + 1

\* A 146
TopicText_A(channelName, user, label) ==
    <<"Ticket ID: ">> \o channelName \o <<" | ", "UserID: ">> \o UserId(user)
        \o <<" | ", "Topic: ", label>>

\* B 750
TopicText_B(user, subject) ==
    <<"Ticket for ", user, " (", "User ID: ">> \o UserId(user) \o <<"). Subject: ">> \o subject

\* A 127-129: the open ticket of the user, as the creation flow looks for it
ExistingTickets_A(chs, user) ==
    {c \in 1..Len(chs) : /\ chs[c].exists
                         /\ StartsWith(chs[c].name, TicketPrefix)
                         /\ Includes(chs[c].topic, <<"UserID: ">> \o UserId(user))}

\* B 679-683
ExistingTickets_B(chs, categoryId, user) ==
    {c \in 1..Len(chs) : /\ chs[c].exists
                         /\ chs[c].parent = categoryId
                         /\ chs[c].topic # <<>>
                         /\ Includes(chs[c].topic, <<"User ID: ">> \o UserId(user))}

\* A 139-218: the channel of a new ticket
NewTicket_A(chs, config, user, topic, panel) ==
    LET ticketNumber == getNextTicketNumber(chs, config.categoryId)
        channelName == TicketPrefix \o ToDigits(ticketNumber)
    IN  NewChannel(channelName, config.categoryId, TopicText_A(channelName, user, topic.label),
                   CreationOverwrites(user, config.supportRoleId), panel, user)

\* B 744-782: the channel of a new ticket
NewTicket_B(config, user, topic, subject, panel) ==
    NewChannel(topic.value \o <<"-">> \o Username(user), config.categoryId,
               TopicText_B(user, subject),
               CreationOverwrites(user, config.supportRoleId), panel, user)

----------------------------------------------------------------------------
(* Ticket creation *)

TICKET_COOLDOWN_MINUTES == 3
Subjects == {<<"help">>}
\* how the Discord calls of a creation end: all succeed, or the named one fails
CreateOutcomes == {"ok", "create", "welcome", "log"}

\* A 636-661 (button) and 673-698 (select menu): the form is shown for a known topic
showModal_A(user, topicValue, rdOk) ==
    /\ impl = "A"
    /\ LET config == getGuildConfig(store, "g1", rdOk)
       IN  IF ~HasValue(config.ticketTopics, topicValue)
           THEN /\ reply' = Ephemeral("UnknownTopic")
                /\ modals' = modals
           ELSE /\ CopiesIn(<<user, topicValue>>, modals) < MaxForms
                /\ reply' = [kind |-> "ModalShown", vis |-> "modal"]
                /\ modals' = modals (+) SetToBag({<<user, topicValue>>})
    /\ store' = UpsertOnRead(store, "g1", rdOk)
    /\ UNCHANGED <<impl, inflight, channels, prompts, cooldowns, timers, now>>

\* a call made twice
CountTwice(b) == IF b THEN 2 ELSE 0
\* a call made once when b holds
Count(b) == IF b THEN 1 ELSE 0

\* A 225-236: the 'Ticket Opened' entry goes to the logs channel when one is set; a
\* failed send is written to the console and nothing else happens
LogOpened_A(ch, config, ext) ==
    [ch EXCEPT !.opened = @ + Count(config.logsChannelId # Null /\ ext # "log")]

\* A 663-671 with handleTicketCreation (106-246)
handleTicketCreation_A(user, topicValue, rdOk, ext) ==
    /\ impl = "A"
    /\ BagIn(<<user, topicValue>>, modals)
    /\ modals' = modals (-) SetToBag({<<user, topicValue>>})
    /\ store' = UpsertOnRead(store, "g1", rdOk)
    /\ LET config == getGuildConfig(store, "g1", rdOk)
           topic == FindTopic(config.ticketTopics, topicValue)
           ticketChannel(panel) == NewTicket_A(channels, config, user, topic, panel)
       IN  IF config.categoryId = Null \/ config.supportRoleId = Null
           THEN reply' = Ephemeral("NotConfigured") /\ channels' = channels
           ELSE IF ~HasValue(config.ticketTopics, topicValue)
           THEN reply' = Ephemeral("UnknownTopic") /\ channels' = channels
           ELSE IF ExistingTickets_A(channels, user) # {}
           THEN reply' = Ephemeral("DuplicateTicket") /\ channels' = channels
           ELSE IF ext = "create"
           THEN reply' = Ephemeral("ExternalCallFailed") /\ channels' = channels
           ELSE /\ Len(channels) < MaxChannels
                /\ IF ext = "welcome"
                   THEN /\ reply' = Ephemeral("ExternalCallFailed")
                        /\ channels' = Append(channels, ticketChannel(NoPanel))
                   ELSE /\ reply' = Ephemeral("TicketCreated")
                        /\ channels' = Append(channels,
                               LogOpened_A(ticketChannel(WelcomeMessage_A), config, ext))
    /\ UNCHANGED <<impl, inflight, prompts, cooldowns, timers, now>>

\* B 665-725: cooldown, then open ticket, then topic
handleSelectMenuInteraction_B(user, topicValue, rdOk) ==
    /\ impl = "B"
    /\ LET config == readConfig(store, rdOk)["g1"]
       IN  IF ~config.present
           THEN reply' = Ephemeral("NotConfigured") /\ modals' = modals
           ELSE IF cooldowns[user] # 0
           THEN reply' = Ephemeral("CooldownActive") /\ modals' = modals
           ELSE IF ExistingTickets_B(channels, config.categoryId, user) # {}
           THEN reply' = Ephemeral("DuplicateTicket") /\ modals' = modals
           ELSE IF ~HasValue(config.ticketTopics, topicValue)
           THEN reply' = Ephemeral("UnknownTopic") /\ modals' = modals
           ELSE /\ CopiesIn(<<user, topicValue>>, modals) < MaxForms
                /\ reply' = [kind |-> "ModalShown", vis |-> "modal"]
                /\ modals' = modals (+) SetToBag({<<user, topicValue>>})
    /\ UNCHANGED <<impl, inflight, store, channels, prompts, cooldowns, timers, now>>

\* B 728-802
handleModalSubmit_B(user, topicValue, subject, rdOk, ext) ==
    /\ impl = "B"
    /\ BagIn(<<user, topicValue>>, modals)
    /\ modals' = modals (-) SetToBag({<<user, topicValue>>})
    /\ LET config == readConfig(store, rdOk)["g1"]
           topic == FindTopic(config.ticketTopics, topicValue)
           newChannel(panel) == NewTicket_B(config, user, topic, subject, panel)
           cooldownEndTime == now + TICKET_COOLDOWN_MINUTES
       IN  IF ~config.present
           THEN /\ reply' = Ephemeral("NotConfigured")
                /\ UNCHANGED <<channels, cooldowns, timers>>
           ELSE IF ~HasValue(config.ticketTopics, topicValue)
           THEN /\ reply' = Ephemeral("UnknownTopic")
                /\ UNCHANGED <<channels, cooldowns, timers>>
           ELSE IF ext = "create"
           THEN /\ reply' = Ephemeral("ExternalCallFailed")
                /\ UNCHANGED <<channels, cooldowns, timers>>
           ELSE /\ Len(channels) < MaxChannels
                /\ IF ext = "welcome"
                   THEN /\ reply' = Ephemeral("ExternalCallFailed")
                        /\ channels' = Append(channels, newChannel(NoPanel))
                        /\ UNCHANGED <<cooldowns, timers>>
                   ELSE /\ reply' = Ephemeral("TicketCreated")
                        /\ channels' = Append(channels, newChannel(WelcomeMessage_B))
                        /\ cooldowns' = [cooldowns EXCEPT ![user] = cooldownEndTime]
                        /\ timers' = timers \cup {<<user, cooldownEndTime>>}
    /\ UNCHANGED <<impl, inflight, store, prompts, now>>

\* B 787: the timer started by a creation deletes the user's cooldown entry
cooldownTimer_B(t) ==
    /\ t \in timers
    /\ now >= t[2]
    /\ cooldowns' = [cooldowns EXCEPT ![t[1]] = 0]
    /\ timers' = timers \ {t}
    /\ UNCHANGED <<impl, inflight, store, channels, modals, prompts, now, reply>>

\* time passes
Tick ==
    /\ now < MaxTime
    /\ now' = now + 1
    /\ UNCHANGED <<impl, inflight, store, channels, modals, prompts, cooldowns, timers, reply>>

----------------------------------------------------------------------------
(* Creation steps run one at a time in a configured guild *)

Creators == {"u1", "u2"}
TopicA == [label |-> "General", value |-> <<"a">>, description |-> "desc", emoji |-> Null]
\* the values a panel may still offer: a configured topic and one since removed
PanelValues == {<<"a">>, <<"b">>}

ConfiguredStore ==
    [g \in Guilds |->
        IF g = "g1"
        THEN [present |-> TRUE, categoryId |-> "cat1", logsChannelId |-> LogsChannel,
              supportRoleId |-> SupportRole, ticketTopics |-> <<TopicA>>]
        ELSE DefaultConfig]

InitConfigured ==
    /\ impl \in Impls
    /\ store = ConfiguredStore
    /\ channels = <<>>
    /\ modals = EmptyBag
    /\ prompts = {}
    /\ cooldowns = [u \in Users |-> 0]
    /\ timers = {}
    /\ now = 0
    /\ inflight = NoneInFlight
    /\ reply = NoReply

NextCreate ==
    \/ \E u \in Creators, tv \in PanelValues : showModal_A(u, tv, TRUE)
    \/ \E u \in Creators, tv \in PanelValues : handleTicketCreation_A(u, tv, TRUE, "ok")
    \/ \E u \in Creators, tv \in PanelValues : handleSelectMenuInteraction_B(u, tv, TRUE)
    \/ \E u \in Creators, tv \in PanelValues, sj \in Subjects :
          handleModalSubmit_B(u, tv, sj, TRUE, "ok")
    \/ \E t \in timers : cooldownTimer_B(t)
    \/ Tick

SpecCreate == InitConfigured /\ [][NextCreate]_vars

----------------------------------------------------------------------------
(* C1 *)

\* the tickets opened for a user that still exist
OpenTicketsOf(user) == {c \in Live : channels[c].creator = user}

OneOpenTicketPerUser == \A u \in Users : Cardinality(OpenTicketsOf(u)) <= 1

DuplicateTicketOnAttempt ==
    \A u \in Creators, tv \in PanelValues :
        /\ (handleTicketCreation_A(u, tv, TRUE, "ok") /\ OpenTicketsOf(u) # {})
              => (reply'.kind = "DuplicateTicket" /\ channels' = channels)
        /\ (handleSelectMenuInteraction_B(u, tv, TRUE) /\ OpenTicketsOf(u) # {})
              => (reply'.kind = "DuplicateTicket" /\ modals' = modals)
        /\ \A sj \in Subjects :
              (handleModalSubmit_B(u, tv, sj, TRUE, "ok") /\ OpenTicketsOf(u) # {})
                 => (reply'.kind = "DuplicateTicket" /\ channels' = channels)

\* C1: with creation steps processed one after another, a user who has an open ticket
\* gets DuplicateTicket on every further creation attempt, and never has two ticket
\* channels open at once.
C1_DuplicateTicket == []OneOpenTicketPerUser /\ [][DuplicateTicketOnAttempt]_vars

----------------------------------------------------------------------------
(* Creation steps in a guild whose configuration changes *)

\* topics were added (A asks for no configuration first) but no category or role is set
TopicsOnlyStore ==
    [g \in Guilds |->
        IF g = "g1" THEN [DefaultConfig EXCEPT !.present = TRUE, !.ticketTopics = <<TopicA>>]
        ELSE DefaultConfig]

InitOrder ==
    /\ impl \in Impls
    /\ store \in {ConfiguredStore,
                  IF impl = "A" THEN TopicsOnlyStore ELSE [g \in Guilds |-> DefaultConfig]}
    /\ channels = <<>>
    /\ modals = EmptyBag
    /\ prompts = {}
    /\ cooldowns = [u \in Users |-> 0]
    /\ timers = {}
    /\ now = 0
    /\ inflight = NoneInFlight
    /\ reply = NoReply

\* /ticket-config naming all three options
FullUpdates == {u \in ConfigUpdates : DOMAIN u = ConfigFields /\ WellFormedUpdate(u)}

NextOrder ==
    \/ NextCreate
    \/ ticketConfigReset_A("g1", TRUE, TRUE)
    \/ \E u \in FullUpdates : ticketConfigUpdate_A("g1", u, TRUE, TRUE, TRUE)
    \/ \E c \in Categories : ticketConfig_B("g1", c, TRUE, TRUE, TRUE)

SpecOrder == InitOrder /\ [][NextOrder]_vars

\* the preconditions of a creation, as the state has them
FailsNotConfigured ==
    IF impl = "A" THEN store["g1"].categoryId = Null \/ store["g1"].supportRoleId = Null
    ELSE ~store["g1"].present
FailsUnknownTopic(tv) == tv \notin Values(store["g1"].ticketTopics)
FailsDuplicateTicket(u) == OpenTicketsOf(u) # {}
FailsCooldownActive(u) == cooldowns[u] # 0

\* the earliest failing precondition in the order of the specification, or "none"
FirstFailure(u, tv) ==
    IF FailsNotConfigured THEN "NotConfigured"
    ELSE IF FailsUnknownTopic(tv) THEN "UnknownTopic"
    ELSE IF FailsDuplicateTicket(u) THEN "DuplicateTicket"
    ELSE IF FailsCooldownActive(u) THEN "CooldownActive"
    ELSE "none"

FirstFailureReported ==
    \A u \in Creators, tv \in PanelValues :
        FirstFailure(u, tv) # "none" =>
            /\ handleTicketCreation_A(u, tv, TRUE, "ok")
                  => (reply'.kind = FirstFailure(u, tv) /\ channels' = channels)
            /\ handleSelectMenuInteraction_B(u, tv, TRUE)
                  => (reply'.kind = FirstFailure(u, tv) /\ channels' = channels)
            /\ \A sj \in Subjects :
                  handleModalSubmit_B(u, tv, sj, TRUE, "ok")
                     => (reply'.kind = FirstFailure(u, tv) /\ channels' = channels)

\* C13: a creation step reports the first failing precondition in the order
\* NotConfigured, UnknownTopic, DuplicateTicket, CooldownActive, and creates no channel
\* when one of them fails.
C13_FirstFailureWins == [][FirstFailureReported]_vars

----------------------------------------------------------------------------
(* Who may act in a channel *)

\* s1, adm and the member u2 hold Manage Channels, the default permission of the staff
\* slash commands
HasManageChannels(u) == u \in {"s1", "adm", "u2"}

\* Discord's resolution of a channel permission: administrator, then the member's
\* overwrite, then the role's, then @everyone's
Resolve(ch, u, perm) ==
    IF IsAdministrator(u) THEN TRUE
    ELSE IF ch.ow[u][perm] # "unset" THEN ch.ow[u][perm] = "allow"
    ELSE IF HasSupportRole(u) /\ ch.ow[SupportRole][perm] # "unset"
         THEN ch.ow[SupportRole][perm] = "allow"
    ELSE IF ch.ow["everyone"][perm] # "unset" THEN ch.ow["everyone"][perm] = "allow"
    ELSE TRUE
CanView(ch, u) == Resolve(ch, u, "view")
CanSend(ch, u) == CanView(ch, u) /\ Resolve(ch, u, "send")

\* B 531-535
isTicketChannel(ch, config) == config.present /\ config.categoryId # Null
                               /\ ch.parent = config.categoryId
\* B 537-543
isSupportUser(u, config) == config.present /\ config.supportRoleId # Null
                            /\ (HasSupportRole(u) \/ IsAdministrator(u))
\* B 546-550: <<>> stands for null
getTicketCreatorId(ch) == MatchDigitsAfter(ch.topic, <<"User ID: ">>)

\* a button of the ticket's first message can be pressed by whoever sees the channel
CanPress(c, u, customId) ==
    /\ c \in Live
    /\ CanView(channels[c], u)
    /\ channels[c].panel.exists
    /\ \E i \in 1..Len(channels[c].panel.row) : channels[c].panel.row[i] = customId

\* the confirm and cancel buttons exist only on the prompt shown to the requester
HasPromptAlways(c, u) == TRUE
HasPrompt(c, u) == <<c, u>> \in prompts

----------------------------------------------------------------------------
(* Closing a ticket *)

\* outcomes of the Discord calls of one close: TRUE when the call succeeds.
\* ack: deferReply (A) / interaction.update (B); fetch: client.users.fetch (A);
\* warning: the in-channel warning (B); edit: the final editReply (A)
CloseCalls == {"ack", "transcript", "fetch", "logs", "dm", "warning", "notice", "edit"}
AllSucceed == [k \in CloseCalls |-> TRUE]
OneFails(k) == [AllSucceed EXCEPT ![k] = FALSE]

\* A 253-281: the Close button of the welcome message
handleCloseTicketConfirm_A(c, u, rdOk) ==
    /\ impl = "A"
    /\ CanPress(c, u, "ticket_close_confirm")
    /\ LET config == getGuildConfig(store, "g1", rdOk)
       IN  IF ~StartsWith(channels[c].name, TicketPrefix)
              \/ ~(HasSupportRole(u) /\ config.supportRoleId = SupportRole)
           THEN reply' = Ephemeral("NotSupportUser") /\ prompts' = prompts
           ELSE reply' = Ephemeral("ConfirmClose") /\ prompts' = prompts \cup {<<c, u>>}
    /\ store' = UpsertOnRead(store, "g1", rdOk)
    /\ UNCHANGED <<impl, inflight, channels, modals, cooldowns, timers, now>>

\* a close that a failed direct message aborts
ClosedUnlessDmFails_A(ch, config, silent, out) ==
    LET ticketUserMatch == MatchDigitsAfter(ch.topic, <<"UserID: ">>)
        transcribed == out.transcript
        fetched == transcribed /\ (ticketUserMatch = <<>> \/ out.fetch)
        noticed == fetched /\ out.dm /\ (silent \/ out.notice)
        replied == noticed /\ out.edit
    IN  [ch EXCEPT !.transcripts = @ + Count(transcribed),
                   !.logMsgs = @ + Count(fetched /\ config.logsChannelId # Null /\ out.logs),
                   !.dms = @ + Count(fetched /\ ticketUserMatch # <<>>),
                   !.notices = @ + Count(noticed /\ ~silent),
                   !.delTimers = @ + Count(replied)]

\* A 288-377: what one run of handleCloseTicket does to the channel
Closed_A(ch, config, silent, out) ==
    LET ticketUserMatch == MatchDigitsAfter(ch.topic, <<"UserID: ">>)
        transcribed == out.transcript
        fetched == transcribed /\ (ticketUserMatch = <<>> \/ out.fetch)
        noticed == fetched /\ (silent \/ out.notice)
        replied == noticed /\ out.edit
    IN  [ch EXCEPT !.transcripts = @ + Count(transcribed),
                   !.logMsgs = @ + Count(fetched /\ config.logsChannelId # Null /\ out.logs),
                   !.dms = @ + Count(fetched /\ ticketUserMatch # <<>>),
                   !.notices = @ + Count(noticed /\ ~silent),
                   !.delTimers = @ + Count(replied)]

handleCloseTicket_A(c, u, silent, rdOk, out) ==
    /\ c \in Live
    /\ channels[c].transcripts < MaxCloses
    /\ store' = UpsertOnRead(store, "g1", rdOk)
    /\ LET config == getGuildConfig(store, "g1", rdOk)
           ch == Closed_A(channels[c], config, silent, out)
       IN  IF ~StartsWith(channels[c].name, TicketPrefix)
           THEN reply' = Ephemeral("NotATicketChannel") /\ channels' = channels
           ELSE IF ~out.ack
           THEN reply' = NoReply /\ channels' = channels
           ELSE /\ channels' = [channels EXCEPT ![c] = ch]
                /\ reply' = IF ch.delTimers > channels[c].delTimers
                            THEN Ephemeral("TicketClosed")
                            ELSE Ephemeral("ExternalCallFailed")
    /\ UNCHANGED <<impl, inflight, modals, prompts, cooldowns, timers, now>>

\* A 628-630: the Confirm Close button of the prompt
closeFinal_A(c, u, rdOk, out) ==
    /\ impl = "A"
    /\ HasPrompt(c, u)
    /\ handleCloseTicket_A(c, u, FALSE, rdOk, out)

\* A 631-632: the Cancel button of the prompt
cancelClose_A(c, u) ==
    /\ impl = "A"
    /\ c \in Live
    /\ HasPrompt(c, u)
    /\ prompts' = prompts \ {<<c, u>>}
    /\ reply' = Ephemeral("CloseCancelled")
    /\ UNCHANGED <<impl, inflight, store, channels, modals, cooldowns, timers, now>>

\* A commands 389-404: /ticket-close [silent]
ticketCloseCommand_A(c, u, silent, rdOk, out) ==
    /\ impl = "A"
    /\ c \in Live
    /\ CanView(channels[c], u)
    /\ HasManageChannels(u)
    /\ handleCloseTicket_A(c, u, silent, rdOk, out)

\* B 1006-1028: the Close button of the control panel
handleCloseButton_B(c, u, rdOk) ==
    /\ impl = "B"
    /\ CanPress(c, u, "ticket_close_start")
    /\ LET config == readConfig(store, rdOk)["g1"]
       IN  IF ~config.present
           THEN reply' = Ephemeral("NotConfigured") /\ prompts' = prompts
           ELSE IF ~isTicketChannel(channels[c], config)
           THEN reply' = NoReply /\ prompts' = prompts
           ELSE IF UserId(u) # getTicketCreatorId(channels[c]) /\ ~isSupportUser(u, config)
           THEN reply' = Ephemeral("NotOwnerOrSupport") /\ prompts' = prompts
           ELSE reply' = Ephemeral("ConfirmClose") /\ prompts' = prompts \cup {<<c, u>>}
    /\ UNCHANGED <<impl, inflight, store, channels, modals, cooldowns, timers, now>>

\* a close that a failed logs delivery aborts
ClosedUnlessLogsFail_B(ch, config, out) ==
    LET logsChannel == config.logsChannelId # Null
        transcribed == out.transcript
        logged == transcribed /\ logsChannel /\ out.logs
        noticed == logged /\ out.notice
    IN  [ch EXCEPT !.transcripts = @ + Count(transcribed),
                   !.logMsgs = @ + Count(logged),
                   !.notices = @ + Count(noticed),
                   !.errors = @ + Count(~noticed),
                   !.delTimers = @ + Count(noticed)]

\* a close that goes on to the logs channel and the deletion without a transcript
ClosedWithoutTranscript_B(ch, config, out) ==
    LET logsChannel == config.logsChannelId # Null
        transcribed == out.transcript
        logged == logsChannel /\ out.logs
        warned == ~logged /\ out.warning
        archived == logged \/ warned
        noticed == archived /\ out.notice
    IN  [ch EXCEPT !.transcripts = @ + Count(transcribed),
                   !.logMsgs = @ + Count(logged),
                   !.warnings = @ + Count(warned),
                   !.notices = @ + Count(noticed),
                   !.errors = @ + Count(~noticed),
                   !.delTimers = @ + Count(noticed)]

\* B 1031-1094: what one run of closeTicket does to the channel
Closed_B(ch, config, out) ==
    LET logsChannel == config.logsChannelId # Null
        transcribed == out.transcript
        logged == transcribed /\ logsChannel /\ out.logs
        warned == transcribed /\ ~logged /\ out.warning
        archived == logged \/ warned
        noticed == archived /\ out.notice
    IN  [ch EXCEPT !.transcripts = @ + Count(transcribed),
                   !.logMsgs = @ + Count(logged),
                   !.warnings = @ + Count(warned),
                   !.notices = @ + Count(noticed),
                   !.errors = @ + Count(~noticed),
                   !.delTimers = @ + Count(noticed)]

\* B 832-834: the Confirm Close button of the prompt
closeTicket_B(c, u, rdOk, out) ==
    /\ impl = "B"
    /\ c \in Live
    /\ HasPrompt(c, u)
    /\ channels[c].transcripts < MaxCloses
    /\ channels[c].errors < MaxCloses
    /\ LET config == readConfig(store, rdOk)["g1"]
       IN  IF ~config.present
           THEN /\ reply' = Ephemeral("NotConfigured")
                /\ UNCHANGED <<channels, prompts>>
           ELSE IF ~isTicketChannel(channels[c], config)
           THEN /\ reply' = NoReply
                /\ UNCHANGED <<channels, prompts>>
           ELSE IF ~out.ack
           THEN /\ reply' = NoReply
                /\ UNCHANGED <<channels, prompts>>
           ELSE /\ prompts' = prompts \ {<<c, u>>}
                /\ channels' = [channels EXCEPT ![c] = Closed_B(@, config, out)]
                /\ reply' = IF channels'[c].delTimers > channels[c].delTimers
                            THEN Ephemeral("TicketClosed")
                            ELSE Public("ExternalCallFailed")
    /\ UNCHANGED <<impl, inflight, store, modals, cooldowns, timers, now>>

\* B 835-837: the Cancel button deletes the prompt; the deletion may fail unnoticed
cancelClose_B(c, u, rdOk, deleted) ==
    /\ impl = "B"
    /\ c \in Live
    /\ HasPrompt(c, u)
    /\ LET config == readConfig(store, rdOk)["g1"]
       IN  IF ~config.present
           THEN reply' = Ephemeral("NotConfigured") /\ prompts' = prompts
           ELSE IF ~isTicketChannel(channels[c], config) \/ ~deleted
           THEN reply' = NoReply /\ prompts' = prompts
           ELSE reply' = NoReply /\ prompts' = prompts \ {<<c, u>>}
    /\ UNCHANGED <<impl, inflight, store, channels, modals, cooldowns, timers, now>>

\* A 370-372, B 1086-1088: the timer of a finished close deletes the channel and
\* everything in it
deleteTimer(c) ==
    /\ c \in ChannelIds
    /\ channels[c].delTimers > 0
    /\ channels' = [channels EXCEPT ![c].delTimers = @ - 1, ![c].exists = FALSE]
    /\ prompts' = {p \in prompts : p[1] # c}
    /\ UNCHANGED <<impl, inflight, store, modals, cooldowns, timers, now, reply>>

----------------------------------------------------------------------------
(* Closing steps on one open ticket *)

\* the calls a close of each build makes
CallsMade_A == CloseCalls \ {"warning"}
CallsMade_B == {"ack", "transcript", "logs", "warning", "notice"}
\* the calls that fail in the runs explored here: the transcript and what follows it
FallibleCalls == {"transcript", "logs", "dm", "warning", "notice"}
\* the outcomes in which at most MaxFailures of the given calls fail
OutcomesOf(calls) == {out \in [CloseCalls -> BOOLEAN] :
                        /\ \A k \in CloseCalls : ~out[k] => k \in calls \cap FallibleCalls
                        /\ Cardinality({k \in CloseCalls : ~out[k]}) <= MaxFailures}
CloseOutcomes_A == OutcomesOf(CallsMade_A)
CloseOutcomes_B == OutcomesOf(CallsMade_B)
CloseOutcomes == IF impl = "A" THEN CloseOutcomes_A ELSE CloseOutcomes_B

InitTicketOf(creator) ==
    /\ impl \in Impls
    /\ store = ConfiguredStore
    /\ channels = << IF impl = "A"
                     THEN NewTicket_A(<<>>, ConfiguredStore["g1"], creator, TopicA,
                                      WelcomeMessage_A)
                     ELSE NewTicket_B(ConfiguredStore["g1"], creator, TopicA, <<"help">>,
                                      WelcomeMessage_B) >>
    /\ modals = EmptyBag
    /\ prompts = {}
    /\ cooldowns = [u \in Users |-> 0]
    /\ timers = {}
    /\ now = 0
    /\ inflight = NoneInFlight
    /\ reply = NoReply

InitTicket == \E creator \in Creators : InitTicketOf(creator)

NextCloseOf(Outs) ==
    \/ \E c \in Live, u \in Users : handleCloseTicketConfirm_A(c, u, TRUE)
    \/ \E c \in Live, u \in Users, out \in Outs : closeFinal_A(c, u, TRUE, out)
    \/ \E c \in Live, u \in Users : cancelClose_A(c, u)
    \/ \E c \in Live, u \in Users, silent \in BOOLEAN, out \in Outs :
          ticketCloseCommand_A(c, u, silent, TRUE, out)
    \/ \E c \in Live, u \in Users : handleCloseButton_B(c, u, TRUE)
    \/ \E c \in Live, u \in Users, out \in Outs : closeTicket_B(c, u, TRUE, out)
    \/ \E c \in Live, u \in Users, deleted \in BOOLEAN : cancelClose_B(c, u, TRUE, deleted)
    \/ \E c \in ChannelIds : deleteTimer(c)

NextClose == NextCloseOf(CloseOutcomes)

SpecClose == InitTicket /\ [][NextClose]_vars

\* the deletion timer of a finished close does fire
FairSpecClose == SpecClose /\ WF_vars(\E c \in ChannelIds : deleteTimer(c))

----------------------------------------------------------------------------
(* C2 - C5 *)

\* the Confirm Close button pressed by u on ticket c, its calls ending as out
ConfirmStep(c, u, out) == closeFinal_A(c, u, TRUE, out) \/ closeTicket_B(c, u, TRUE, out)
SlashCloseStep(c) == \E u \in Users, silent \in BOOLEAN, out \in CloseOutcomes :
                        ticketCloseCommand_A(c, u, silent, TRUE, out)
\* the terminal sequence starts: a transcript of the channel is generated
SequenceStarts(c) == channels'[c].transcripts > channels[c].transcripts
ConfirmedBy(c) == \E u \in Users, out \in CloseOutcomes :
                     <<c, u>> \in prompts /\ ConfirmStep(c, u, out)

CreatorRecorded(ch) == IF impl = "A" THEN MatchDigitsAfter(ch.topic, <<"UserID: ">>) # <<>>
                       ELSE getTicketCreatorId(ch) # <<>>
LogsConfigured == store["g1"].logsChannelId # Null

\* what a close adds to the counts of channel c
Adds(c, transcripts, logMsgs, dms, warnings, notices, delTimers) ==
    /\ channels'[c].transcripts = channels[c].transcripts + transcripts
    /\ channels'[c].logMsgs = channels[c].logMsgs + logMsgs
    /\ channels'[c].dms = channels[c].dms + dms
    /\ channels'[c].warnings = channels[c].warnings + warnings
    /\ channels'[c].notices = channels[c].notices + notices
    /\ channels'[c].delTimers = channels[c].delTimers + delTimers
    /\ channels'[c].errors = channels[c].errors

TimerDeletes == \A c \in ChannelIds : deleteTimer(c) => ~channels'[c].exists

Notifications == {"logs", "dm", "warning", "notice"}
OnlyFail(out, S) == \A k \in CloseCalls : ~out[k] => k \in S
\* the in-channel posts this close makes all succeed
PostsSucceed(out) == out.notice /\ (impl = "B" => (out.logs \/ out.warning))
Scheduled(c) == channels'[c].delTimers = channels[c].delTimers + 1
\* the closing runs hold one ticket: once its deletion is scheduled it is deleted
DeletionFollows == (\E c \in ChannelIds : channels[c].delTimers > 0)
                      ~> (\A c \in ChannelIds : ~channels[c].exists)

----------------------------------------------------------------------------
(* Claim, unclaim, lock and unlock *)

HasUserId(id) == \E u \in Users : UserId(u) = id
UserOfId(id) == CHOOSE u \in Users : UserId(u) = id
HasButton(ch, customId) == ch.panel.exists
                           /\ \E i \in 1..Len(ch.panel.row) : ch.panel.row[i] = customId
\* permissionOverwrites.edit(id, { SendMessages: allowed })
EditSend(ow, u, allowed) ==
    [ow EXCEPT ![u] = [present |-> TRUE, view |-> @.view,
                       send |-> IF allowed THEN "allow" ELSE "deny"]]

\* who holds the claim: A reads the channel topic, B the Claimed By field; <<>> is nobody
claimedByUserId_A(ch) == MatchDigitsAfter(ch.topic, <<"Claimed By: ">>)
claimedByUserId_B(ch) == IF ch.panel.claimedBy = Unclaimed THEN <<>>
                         ELSE MatchDigitsAfter(ch.panel.claimedBy, <<"<@">>)

\* a claim that never looks at who holds the ticket
ClaimedUnchecked_A(ch, u, forceClaim, panelRecent) ==
    [ch |-> [ch EXCEPT !.topic = RemoveDigitMatch(ch.topic, <<" | ", "Claimed By: ">>)
                                    \o <<" | ", "Claimed By: ">> \o UserId(u)],
     kind |-> "Claimed"]

\* A 401-448: the claim, after the role check. panelRecent: the welcome message is
\* among the last five messages of the channel
Claimed_A(ch, u, forceClaim, panelRecent) ==
    LET claimedMatch == claimedByUserId_A(ch)
        newTopic == RemoveDigitMatch(ch.topic, <<" | ", "Claimed By: ">>)
        updatedRow == <<"ticket_claimed_disabled">>
                         \o SelectSeq(ch.panel.row, LAMBDA x : x # "ticket_claim")
    IN  IF claimedMatch # <<>> /\ ~forceClaim
        THEN [ch |-> ch,
              kind |-> IF claimedMatch = UserId(u) THEN "AlreadyClaimedBySelf"
                       ELSE "AlreadyClaimedByOther"]
        ELSE [ch |-> [ch EXCEPT !.topic = newTopic \o <<" | ", "Claimed By: ">> \o UserId(u),
                                !.panel.row = IF panelRecent /\ HasButton(ch, "ticket_claim")
                                              THEN updatedRow ELSE @],
              kind |-> "Claimed"]

\* A 461-495
Locked_A(ch, lockState) ==
    LET ticketUserId == MatchDigitsAfter(ch.topic, <<"UserID: ">>)
    IN  IF ~StartsWith(ch.name, TicketPrefix) THEN [ch |-> ch, kind |-> "NotATicketChannel"]
        ELSE IF ticketUserId = <<>> THEN [ch |-> ch, kind |-> "CreatorUnknown"]
        ELSE IF ~HasUserId(ticketUserId) THEN [ch |-> ch, kind |-> "ExternalCallFailed"]
        ELSE [ch |-> [ch EXCEPT !.ow = EditSend(@, UserOfId(ticketUserId), ~lockState)],
              kind |-> IF lockState THEN "Locked" ELSE "Unlocked"]

\* A 384-454
handleClaimTicket_A(c, u, forceClaim, rdOk, panelRecent) ==
    /\ store' = UpsertOnRead(store, "g1", rdOk)
    /\ LET config == getGuildConfig(store, "g1", rdOk)
           r == Claimed_A(channels[c], u, forceClaim, panelRecent)
       IN  IF ~(HasSupportRole(u) /\ config.supportRoleId = SupportRole)
           THEN reply' = Ephemeral("NotSupportUser") /\ channels' = channels
           ELSE reply' = Ephemeral(r.kind) /\ channels' = [channels EXCEPT ![c] = r.ch]
    /\ UNCHANGED <<impl, inflight, modals, prompts, cooldowns, timers, now>>

\* A 633-635: the Claim button
claimButton_A(c, u, rdOk, panelRecent) ==
    /\ impl = "A"
    /\ CanPress(c, u, "ticket_claim")
    /\ handleClaimTicket_A(c, u, FALSE, rdOk, panelRecent)

\* A commands 406-421: /ticket-claim [force]
ticketClaimCommand_A(c, u, force, rdOk, panelRecent) ==
    /\ impl = "A"
    /\ c \in Live /\ CanView(channels[c], u) /\ HasManageChannels(u)
    /\ handleClaimTicket_A(c, u, force, rdOk, panelRecent)

\* A commands 424-447: /ticket-lock and /ticket-unlock
ticketLockCommand_A(c, u, lockState, rdOk) ==
    /\ impl = "A"
    /\ c \in Live /\ CanView(channels[c], u) /\ HasManageChannels(u)
    /\ store' = UpsertOnRead(store, "g1", rdOk)
    /\ LET r == Locked_A(channels[c], lockState)
       IN  /\ channels' = [channels EXCEPT ![c] = r.ch]
           /\ reply' = IF r.kind \in {"Locked", "Unlocked"} THEN Public(r.kind)
                       ELSE Ephemeral(r.kind)
    /\ UNCHANGED <<impl, inflight, modals, prompts, cooldowns, timers, now>>

\* customId.includes('claim')
IsClaimButton(customId) == customId \in {"ticket_claim", "ticket_unclaim", "ticket_claimed_disabled"}
ClaimButtons(ch) == SelectSeq(ch.panel.row, IsClaimButton)

\* B 847-889
Claimed_B(ch, u) ==
    IF ~ch.panel.exists THEN [ch |-> ch, kind |-> "PanelMissing"]
    ELSE IF ch.panel.claimedBy # Unclaimed /\ ch.panel.claimedBy # Mention(u)
    THEN [ch |-> ch, kind |-> "AlreadyClaimedByOther"]
    ELSE IF ch.panel.claimedBy = Mention(u)
    THEN [ch |-> ch, kind |-> "AlreadyClaimedBySelf"]
    ELSE [ch |-> [ch EXCEPT !.panel.claimedBy = Mention(u),
                            !.panel.status = "In Progress",
                            !.panel.row = <<"ticket_unclaim", "ticket_lock",
                                            "ticket_close_start">>],
          kind |-> "Claimed"]

\* B 892-918
Unclaimed_B(ch) ==
    IF ~ch.panel.exists THEN [ch |-> ch, kind |-> "none"]
    ELSE [ch |-> [ch EXCEPT !.panel.claimedBy = Unclaimed,
                            !.panel.status = "Open",
                            !.panel.row = <<"ticket_claim", "ticket_lock",
                                            "ticket_close_start">>],
          kind |-> "Unclaimed"]

\* an unlock that forgets the claim
StatusAlwaysOpen(claimedBy) == "Open"
\* B 969: the label an unlock restores
StatusOf(claimedBy) == IF claimedBy = Unclaimed THEN "Open" ELSE "In Progress"

\* B 921-1003
Locked_B(ch, lock) ==
    LET creatorId == getTicketCreatorId(ch)
        claimButton == ClaimButtons(ch)[1]
    IN  IF creatorId = <<>> THEN [ch |-> ch, kind |-> "CreatorUnknown"]
        ELSE IF ~ch.panel.exists THEN [ch |-> ch, kind |-> "PanelMissing"]
        ELSE IF ClaimButtons(ch) = <<>> THEN [ch |-> ch, kind |-> "ClaimButtonMissing"]
        ELSE IF ~HasUserId(creatorId) THEN [ch |-> ch, kind |-> "ExternalCallFailed"]
        ELSE IF lock
        THEN [ch |-> [ch EXCEPT !.ow = EditSend(@, UserOfId(creatorId), FALSE),
                                !.panel.status = "Locked",
                                !.panel.row = <<claimButton, "ticket_unlock",
                                                "ticket_close_start">>],
              kind |-> "Locked"]
        ELSE [ch |-> [ch EXCEPT !.ow = EditSend(@, UserOfId(creatorId), TRUE),
                                !.panel.status = StatusOf(ch.panel.claimedBy),
                                !.panel.row = <<claimButton, "ticket_lock",
                                                "ticket_close_start">>],
              kind |-> "Unlocked"]

\* what a staff operation of B does to the channel
Operated_B(ch, u, op) ==
    CASE op = "claim" -> Claimed_B(ch, u)
      [] op = "unclaim" -> Unclaimed_B(ch)
      [] op = "lock" -> Locked_B(ch, TRUE)
      [] OTHER -> Locked_B(ch, FALSE)

Done == {"Claimed", "Unclaimed", "Locked", "Unlocked"}
staffButtons == {"ticket_claim", "ticket_unclaim", "ticket_lock", "ticket_unlock"}
ButtonOp(customId) == CASE customId = "ticket_claim" -> "claim"
                        [] customId = "ticket_unclaim" -> "unclaim"
                        [] customId = "ticket_lock" -> "lock"
                        [] OTHER -> "unlock"
staffTicketCommands == {"ticket-claim", "ticket-lock", "ticket-unlock"}
CommandOp(commandName) == CASE commandName = "ticket-claim" -> "claim"
                            [] commandName = "ticket-lock" -> "lock"
                            [] OTHER -> "unlock"

\* B 805-829: a staff button of the control panel. What is done is posted in the
\* channel, and so is a failed permission edit (999-1002); a refusal is shown to the
\* presser only, and an unclaim that finds no panel says nothing (896)
handleButtonInteraction_B(c, u, customId, rdOk) ==
    /\ impl = "B"
    /\ customId \in staffButtons
    /\ CanPress(c, u, customId)
    /\ LET config == readConfig(store, rdOk)["g1"]
           r == Operated_B(channels[c], u, ButtonOp(customId))
       IN  IF ~config.present
           THEN reply' = Ephemeral("NotConfigured") /\ channels' = channels
           ELSE IF ~isTicketChannel(channels[c], config)
           THEN reply' = NoReply /\ channels' = channels
           ELSE IF ~isSupportUser(u, config)
           THEN reply' = Ephemeral("NotSupportUser") /\ channels' = channels
           ELSE /\ channels' = [channels EXCEPT ![c] = r.ch]
                /\ reply' = IF r.kind \in Done \cup {"ExternalCallFailed"} THEN Public(r.kind)
                            ELSE IF r.kind = "none" THEN NoReply ELSE Ephemeral(r.kind)
    /\ UNCHANGED <<impl, inflight, store, modals, prompts, cooldowns, timers, now>>

\* B 640-662 with commands 416-457: /ticket-claim, /ticket-lock, /ticket-unlock
executeSlashCommand_B(c, u, commandName, rdOk) ==
    /\ impl = "B"
    /\ commandName \in staffTicketCommands
    /\ c \in Live /\ CanView(channels[c], u) /\ HasManageChannels(u)
    /\ LET config == readConfig(store, rdOk)["g1"]
           r == Operated_B(channels[c], u, CommandOp(commandName))
       IN  IF ~config.present
           THEN reply' = Ephemeral("NotConfigured") /\ channels' = channels
           ELSE IF ~isTicketChannel(channels[c], config)
           THEN reply' = Ephemeral("NotATicketChannel") /\ channels' = channels
           ELSE IF ~isSupportUser(u, config)
           THEN reply' = Ephemeral("NotSupportUser") /\ channels' = channels
           ELSE /\ channels' = [channels EXCEPT ![c] = r.ch]
                /\ reply' = Ephemeral(r.kind)
    /\ UNCHANGED <<impl, inflight, store, modals, prompts, cooldowns, timers, now>>

----------------------------------------------------------------------------
(* Rename, add-user and remove-user *)

NameChars == LowerAlpha \cup Digits

\* replace(/[^a-z0-9]+/g, '-'): every run of other characters becomes one hyphen
HyphenateRuns(s) ==
    LET marked == [i \in 1..Len(s) |->
                     [char |-> IF s[i] \in NameChars THEN s[i] ELSE "-",
                      kept |-> s[i] \in NameChars \/ i = Len(s) \/ s[i + 1] \in NameChars]]
        kept == SelectSeq(marked, LAMBDA m : m.kept)
    IN  [i \in 1..Len(kept) |-> kept[i].char]

\* replace(/^-+|-+$/g, '')
TrimHyphens(s) ==
    IF \A i \in 1..Len(s) : s[i] = "-" THEN <<>>
    ELSE SubSeq(s, CHOOSE i \in 1..Len(s) : s[i] # "-" /\ \A j \in 1..(i - 1) : s[j] = "-",
                   CHOOSE i \in 1..Len(s) : s[i] # "-" /\ \A j \in (i + 1)..Len(s) : s[j] = "-")

\* A 511
safeName(newName) == TrimHyphens(HyphenateRuns(MapLower(newName)))

\* a rename that applies the name as typed
RenamedAsTyped_A(ch, newName, setNameOk) == [ch |-> [ch EXCEPT !.name = newName], kind |-> "Renamed"]

\* A 502-530
Renamed_A(ch, newName, setNameOk) ==
    IF ~StartsWith(ch.name, TicketPrefix) THEN [ch |-> ch, kind |-> "NotATicketChannel"]
    ELSE LET safe == safeName(newName)
         IN  IF Len(safe) < 2 \/ Len(safe) > 100 THEN [ch |-> ch, kind |-> "InvalidName"]
             ELSE IF ~setNameOk THEN [ch |-> ch, kind |-> "ExternalCallFailed"]
             ELSE [ch |-> [ch EXCEPT !.name = safe], kind |-> "Renamed"]

\* the users a command's user option can name: members and the bot itself
Targets == Users \cup {"bot"}

\* A 538-567
UserManaged_A(ch, target, isAdd, editOk) ==
    IF ~StartsWith(ch.name, TicketPrefix) THEN [ch |-> ch, kind |-> "NotATicketChannel"]
    ELSE IF ~editOk THEN [ch |-> ch, kind |-> "ExternalCallFailed"]
    ELSE IF isAdd THEN [ch |-> [ch EXCEPT !.ow[target] = AllowViewSend], kind |-> "UserAdded"]
    ELSE [ch |-> [ch EXCEPT !.ow[target] = NoOverwrite], kind |-> "UserRemoved"]

StaffDone == {"Renamed", "UserAdded", "UserRemoved"}

\* A commands 335-350: /ticket-rename
ticketRenameCommand_A(c, u, newName, setNameOk) ==
    /\ impl = "A"
    /\ c \in Live /\ CanView(channels[c], u) /\ HasManageChannels(u)
    /\ LET r == Renamed_A(channels[c], newName, setNameOk)
       IN  /\ channels' = [channels EXCEPT ![c] = r.ch]
           /\ reply' = IF r.kind \in StaffDone THEN Public(r.kind) ELSE Ephemeral(r.kind)
    /\ UNCHANGED <<impl, inflight, store, modals, prompts, cooldowns, timers, now>>

\* A commands 353-386: /ticket-add and /ticket-remove
ticketUserCommand_A(c, u, target, isAdd, editOk) ==
    /\ impl = "A"
    /\ c \in Live /\ CanView(channels[c], u) /\ HasManageChannels(u)
    /\ LET r == UserManaged_A(channels[c], target, isAdd, editOk)
       IN  /\ channels' = [channels EXCEPT ![c] = r.ch]
           /\ reply' = IF r.kind \in StaffDone THEN Public(r.kind) ELSE Ephemeral(r.kind)
    /\ UNCHANGED <<impl, inflight, store, modals, prompts, cooldowns, timers, now>>

\* B commands 319-341: the name goes to Discord as typed.  ext: "ok", or the call that
\* fails: "edit" (setName / permissionOverwrites) or "send" (the notice in the channel)
Renamed_B(ch, newName, ext) ==
    IF ext = "edit" THEN [ch |-> ch, kind |-> "ExternalCallFailed"]
    ELSE [ch |-> [ch EXCEPT !.name = newName],
          kind |-> IF ext = "send" THEN "ExternalCallFailed" ELSE "Renamed"]

\* B commands 355-378 and 392-412
UserManaged_B(ch, target, isAdd, ext) ==
    IF ext = "edit" THEN [ch |-> ch, kind |-> "ExternalCallFailed"]
    ELSE [ch |-> [ch EXCEPT !.ow[target] = IF isAdd THEN AllowViewSend ELSE NoOverwrite],
          kind |-> IF ext = "send" THEN "ExternalCallFailed"
                   ELSE IF isAdd THEN "UserAdded" ELSE "UserRemoved"]

\* B 640-654: why executeSlashCommand refuses a staff command, or "none"
StaffCommandRefusal_B(ch, u, config) ==
    IF ~config.present THEN "NotConfigured"
    ELSE IF ~isTicketChannel(ch, config) THEN "NotATicketChannel"
    ELSE IF ~isSupportUser(u, config) THEN "NotSupportUser"
    ELSE "none"

\* B 640-662 with commands 307-342: /ticket-rename; its option takes 3 to 100 characters
ticketRenameCommand_B(c, u, newName, rdOk, ext) ==
    /\ impl = "B"
    /\ c \in Live /\ CanView(channels[c], u) /\ HasManageChannels(u)
    /\ Len(newName) >= 3 /\ Len(newName) <= 100
    /\ LET config == readConfig(store, rdOk)["g1"]
           refusal == StaffCommandRefusal_B(channels[c], u, config)
           r == Renamed_B(channels[c], newName, ext)
       IN  IF refusal # "none"
           THEN reply' = Ephemeral(refusal) /\ channels' = channels
           ELSE reply' = Ephemeral(r.kind) /\ channels' = [channels EXCEPT ![c] = r.ch]
    /\ UNCHANGED <<impl, inflight, store, modals, prompts, cooldowns, timers, now>>

\* B 640-662 with commands 345-413: /ticket-add and /ticket-remove
ticketUserCommand_B(c, u, target, isAdd, rdOk, ext) ==
    /\ impl = "B"
    /\ c \in Live /\ CanView(channels[c], u) /\ HasManageChannels(u)
    /\ LET config == readConfig(store, rdOk)["g1"]
           refusal == StaffCommandRefusal_B(channels[c], u, config)
           r == UserManaged_B(channels[c], target, isAdd, ext)
       IN  IF refusal # "none"
           THEN reply' = Ephemeral(refusal) /\ channels' = channels
           ELSE reply' = Ephemeral(r.kind) /\ channels' = [channels EXCEPT ![c] = r.ch]
    /\ UNCHANGED <<impl, inflight, store, modals, prompts, cooldowns, timers, now>>

----------------------------------------------------------------------------
(* Staff operations on one open ticket *)

NextLife ==
    \/ \E c \in Live, u \in Users, recent \in BOOLEAN : claimButton_A(c, u, TRUE, recent)
    \/ \E c \in Live, u \in Users, force \in BOOLEAN, recent \in BOOLEAN :
          ticketClaimCommand_A(c, u, force, TRUE, recent)
    \/ \E c \in Live, u \in Users, lockState \in BOOLEAN :
          ticketLockCommand_A(c, u, lockState, TRUE)
    \/ \E c \in Live, u \in Users, id \in staffButtons :
          handleButtonInteraction_B(c, u, id, TRUE)
    \/ \E c \in Live, u \in Users, cmd \in staffTicketCommands :
          executeSlashCommand_B(c, u, cmd, TRUE)

SpecLife == InitTicket /\ [][NextLife]_vars

----------------------------------------------------------------------------
(* Staff operations with rename, add-user and remove-user *)

\* names typed into /ticket-rename: one that cleans up to ub-x1, one that keeps the
\* ticket- prefix, one that cleans up to a single character, and one of 101 characters
LongName == [i \in 1..101 |-> "a"]
RenameInputs == {<<"U", "b", "!", " ", "x", "1">>, TicketPrefix \o <<"9">>,
                 <<"!", "a", "!">>, LongName}
\* the users named in /ticket-add and /ticket-remove: the member u1, who is the creator
\* of the ticket or a third party, and the bot
OpTargets == {"u1", "bot"}
CommandOutcomes == {"ok", "edit", "send"}

NextOps ==
    \/ NextLife
    \/ \E c \in Live, u \in Users, n \in RenameInputs, ok \in BOOLEAN :
          ticketRenameCommand_A(c, u, n, ok)
    \/ \E c \in Live, u \in Users, t \in OpTargets, isAdd, ok \in BOOLEAN :
          ticketUserCommand_A(c, u, t, isAdd, ok)
    \/ \E c \in Live, u \in Users, n \in RenameInputs, ext \in CommandOutcomes :
          ticketRenameCommand_B(c, u, n, TRUE, ext)
    \/ \E c \in Live, u \in Users, t \in OpTargets, isAdd \in BOOLEAN,
             ext \in CommandOutcomes :
          ticketUserCommand_B(c, u, t, isAdd, TRUE, ext)

SpecOps == InitTicket /\ [][NextOps]_vars

----------------------------------------------------------------------------
(* Staff operations and closing on a ticket of u2, a member with Manage Channels *)

AuthName == <<"U", "b", "!", " ", "x", "1">>

NextAuth ==
    \/ NextLife
    \/ \E c \in Live, u \in Users : ticketRenameCommand_A(c, u, AuthName, TRUE)
    \/ \E c \in Live, u \in Users, isAdd \in BOOLEAN :
          ticketUserCommand_A(c, u, "u1", isAdd, TRUE)
    \/ \E c \in Live, u \in Users : ticketRenameCommand_B(c, u, AuthName, TRUE, "ok")
    \/ \E c \in Live, u \in Users, isAdd \in BOOLEAN :
          ticketUserCommand_B(c, u, "u1", isAdd, TRUE, "ok")
    \/ \E c \in Live, u \in Users : handleCloseTicketConfirm_A(c, u, TRUE)
    \/ \E c \in Live, u \in Users : closeFinal_A(c, u, TRUE, AllSucceed)
    \/ \E c \in Live, u \in Users : ticketCloseCommand_A(c, u, FALSE, TRUE, AllSucceed)
    \/ \E c \in Live, u \in Users : handleCloseButton_B(c, u, TRUE)
    \/ \E c \in Live, u \in Users : closeTicket_B(c, u, TRUE, AllSucceed)

InitTicketOfU2 == InitTicketOf("u2")

SpecAuth == InitTicketOfU2 /\ [][NextAuth]_vars

----------------------------------------------------------------------------
(* C14 - C15 *)

\* holds the configured support role or administrator privilege
Privileged(u) == HasSupportRole(u) \/ IsAdministrator(u)

\* a claim, unclaim, lock, unlock, rename, add-user or remove-user requested by u
StaffOpBy(c, u) ==
    \/ \E recent \in BOOLEAN : claimButton_A(c, u, TRUE, recent)
    \/ \E force, recent \in BOOLEAN : ticketClaimCommand_A(c, u, force, TRUE, recent)
    \/ \E lockState \in BOOLEAN : ticketLockCommand_A(c, u, lockState, TRUE)
    \/ \E id \in staffButtons : handleButtonInteraction_B(c, u, id, TRUE)
    \/ \E cmd \in staffTicketCommands : executeSlashCommand_B(c, u, cmd, TRUE)
    \/ ticketRenameCommand_A(c, u, AuthName, TRUE)
    \/ ticketRenameCommand_B(c, u, AuthName, TRUE, "ok")
    \/ \E isAdd \in BOOLEAN : ticketUserCommand_A(c, u, "u1", isAdd, TRUE)
    \/ \E isAdd \in BOOLEAN : ticketUserCommand_B(c, u, "u1", isAdd, TRUE, "ok")

\* a close request, confirmation or command by u
CloseBy(c, u) ==
    \/ handleCloseTicketConfirm_A(c, u, TRUE)
    \/ closeFinal_A(c, u, TRUE, AllSucceed)
    \/ ticketCloseCommand_A(c, u, FALSE, TRUE, AllSucceed)
    \/ handleCloseButton_B(c, u, TRUE)
    \/ closeTicket_B(c, u, TRUE, AllSucceed)

\* C14: a claim, unclaim, lock, unlock, rename, add-user or remove-user requested by a
\* user with neither the support role nor administrator privilege leaves the ticket
\* unchanged, and so does a close requested by such a user who is not the creator.
C14_StaffOnly ==
    [][\A c \in Live, u \in Users :
          ~Privileged(u) =>
              /\ StaffOpBy(c, u) => channels' = channels
              /\ (u # channels[c].creator /\ CloseBy(c, u))
                    => (channels' = channels /\ prompts' = prompts)]_vars

\* the Close button of the ticket pressed by u
CloseRequestBy(c, u) == handleCloseTicketConfirm_A(c, u, TRUE) \/ handleCloseButton_B(c, u, TRUE)

\* C15: when the creator of a ticket, holding neither the support role nor administrator
\* privilege, requests its close, the request is accepted and the confirmation prompt is
\* shown to them.
C15_CreatorMayRequestClose ==
    [][\A c \in Live, u \in Users :
          (u = channels[c].creator /\ ~Privileged(u) /\ CloseRequestBy(c, u))
             => (reply' = Ephemeral("ConfirmClose") /\ <<c, u>> \in prompts')]_vars

----------------------------------------------------------------------------
(* C16 *)

RenameBy(c, u) == ticketRenameCommand_A(c, u, AuthName, TRUE)
                  \/ ticketRenameCommand_B(c, u, AuthName, TRUE, "ok")

\* a rename that is applied changes the name and nothing else of the ticket
RenameChangesNameOnly ==
    \A c \in Live, u \in Users :
        (RenameBy(c, u) /\ reply'.kind = "Renamed")
           => channels'[c] = [channels[c] EXCEPT !.name = channels'[c].name]

\* the staff operations and the close of a member entitled to them are carried out:
\* none is refused because the channel is not taken for a ticket
StillATicket ==
    \A c \in Live, u \in Users :
        /\ (\E lockState \in BOOLEAN : ticketLockCommand_A(c, u, lockState, TRUE))
              => reply'.kind \in {"Locked", "Unlocked"}
        /\ ticketRenameCommand_A(c, u, AuthName, TRUE) => reply'.kind = "Renamed"
        /\ (\E isAdd \in BOOLEAN : ticketUserCommand_A(c, u, "u1", isAdd, TRUE))
              => reply'.kind \in {"UserAdded", "UserRemoved"}
        /\ ticketCloseCommand_A(c, u, FALSE, TRUE, AllSucceed) => reply'.kind = "TicketClosed"
        /\ (HasSupportRole(u) /\ handleCloseTicketConfirm_A(c, u, TRUE))
              => reply'.kind = "ConfirmClose"
        /\ closeFinal_A(c, u, TRUE, AllSucceed) => reply'.kind = "TicketClosed"
        /\ (Privileged(u) /\ \E cmd \in {"ticket-lock", "ticket-unlock"} :
                                executeSlashCommand_B(c, u, cmd, TRUE))
              => reply'.kind \in {"Locked", "Unlocked"}
        /\ (Privileged(u) /\ ticketRenameCommand_B(c, u, AuthName, TRUE, "ok"))
              => reply'.kind = "Renamed"
        /\ (Privileged(u) /\ \E isAdd \in BOOLEAN :
                                ticketUserCommand_B(c, u, "u1", isAdd, TRUE, "ok"))
              => reply'.kind \in {"UserAdded", "UserRemoved"}
        /\ (Privileged(u) /\ handleCloseButton_B(c, u, TRUE)) => reply'.kind = "ConfirmClose"
        /\ closeTicket_B(c, u, TRUE, AllSucceed) => reply'.kind = "TicketClosed"

\* C16: a rename changes only the name of the ticket (creator, claim and lock state stay),
\* and on a renamed ticket lock, unlock, rename, add-user, remove-user and close still
\* succeed as they do on every open ticket.
C16_RenameCosmetic == [][RenameChangesNameOnly /\ StillATicket]_vars

----------------------------------------------------------------------------
(* A member with an open ticket asks for another; one support user works on tickets
   and changes the category *)

\* the support user works on the ticket opened first
Worked == Live \cap {1}

NextKeep ==
    \/ showModal_A("u1", <<"a">>, TRUE)
    \/ handleTicketCreation_A("u1", <<"a">>, TRUE, "ok")
    \/ handleSelectMenuInteraction_B("u1", <<"a">>, TRUE)
    \/ \E sj \in Subjects : handleModalSubmit_B("u1", <<"a">>, sj, TRUE, "ok")
    \/ \E t \in timers : cooldownTimer_B(t)
    \/ Tick
    \/ \E c \in Worked : claimButton_A(c, "s1", TRUE, TRUE)
    \/ \E c \in Worked, lockState \in BOOLEAN : ticketLockCommand_A(c, "s1", lockState, TRUE)
    \/ \E c \in Worked, id \in staffButtons : handleButtonInteraction_B(c, "s1", id, TRUE)
    \/ \E c \in Worked : ticketRenameCommand_A(c, "s1", AuthName, TRUE)
    \/ \E c \in Worked : ticketRenameCommand_B(c, "s1", AuthName, TRUE, "ok")
    \/ \E c \in Worked, isAdd \in BOOLEAN : ticketUserCommand_A(c, "s1", "u2", isAdd, TRUE)
    \/ \E c \in Worked, isAdd \in BOOLEAN : ticketUserCommand_B(c, "s1", "u2", isAdd, TRUE, "ok")
    \/ \E u \in FullUpdates : ticketConfigUpdate_A("g1", u, TRUE, TRUE, TRUE)
    \/ \E cat \in Categories : ticketConfig_B("g1", cat, TRUE, TRUE, TRUE)

InitTicketOfU1 == InitTicketOf("u1")

SpecKeep == InitTicketOfU1 /\ [][NextKeep]_vars

----------------------------------------------------------------------------
(* C18 *)

\* C18: whatever creations, claims, locks, unlocks, renames, add-user, remove-user and
\* category changes ran, one after another, no member has two open tickets in the guild.
C18_OneOpenTicketKept ==
    \A c \in Live, d \in Live : channels[c].creator = channels[d].creator => c = d

----------------------------------------------------------------------------
(* C17 *)

\* name is what the clean-up of the claim makes of the input: lowercase letters, digits
\* and single hyphens, no hyphen at either end, the letters and digits of the input in
\* their order
CleanedUp(name, input) ==
    /\ \A i \in 1..Len(name) : name[i] \in NameChars \cup {"-"}
    /\ name # <<>> => (name[1] # "-" /\ name[Len(name)] # "-")
    /\ \A i \in 1..(Len(name) - 1) : ~(name[i] = "-" /\ name[i + 1] = "-")
    /\ Keep(name, NameChars) = Keep(MapLower(input), NameChars)

\* a rename of a ticket by a member entitled to it
RenameStep(c, u, n) ==
    \/ StartsWith(channels[c].name, TicketPrefix) /\ ticketRenameCommand_A(c, u, n, TRUE)
    \/ Privileged(u) /\ \E ext \in CommandOutcomes : ticketRenameCommand_B(c, u, n, TRUE, ext)

\* C17: the name a successful rename applies is the cleaned-up input; when the cleaned-up
\* input has fewer than 2 or more than 100 characters the rename is answered InvalidName
\* and the name stays.
C17_RenameSanitized ==
    [][\A c \in Live, u \in Users, n \in RenameInputs :
          RenameStep(c, u, n) =>
              /\ reply'.kind = "Renamed" => CleanedUp(channels'[c].name, n)
              /\ (Len(safeName(n)) < 2 \/ Len(safeName(n)) > 100)
                    => (reply'.kind = "InvalidName" /\ channels'[c].name = channels[c].name)]_vars

----------------------------------------------------------------------------
(* C6 - C9 *)

claimedByUserId(ch) == IF impl = "A" THEN claimedByUserId_A(ch) ELSE claimedByUserId_B(ch)
\* who may claim: the support role in A, the role or administrator in B
SupportUser(u) == IF impl = "A" THEN HasSupportRole(u)
                  ELSE isSupportUser(u, store["g1"])
\* the Claim button, and in A the /ticket-claim command without force
NonForcedClaim(c, u) ==
    \/ \E recent \in BOOLEAN : claimButton_A(c, u, TRUE, recent)
    \/ \E recent \in BOOLEAN : ticketClaimCommand_A(c, u, FALSE, TRUE, recent)
    \/ handleButtonInteraction_B(c, u, "ticket_claim", TRUE)
\* /ticket-claim force:true in A; /ticket-claim in B, which passes force = true
ForcedClaim(c, u) ==
    \/ \E recent \in BOOLEAN : ticketClaimCommand_A(c, u, TRUE, TRUE, recent)
    \/ executeSlashCommand_B(c, u, "ticket-claim", TRUE)
ClaimedByOther(c, u) == claimedByUserId(channels[c]) \notin {<<>>, UserId(u)}

\* C6: a non-forced claim on a ticket claimed by somebody else fails with
\* AlreadyClaimedByOther and leaves the claimer unchanged; a forced claim by a support
\* user always makes the requester the claimer.
C6_ForcedClaimReassigns ==
    [][\A c \in Live, u \in Users :
          /\ (NonForcedClaim(c, u) /\ SupportUser(u) /\ ClaimedByOther(c, u))
                => (/\ reply'.kind = "AlreadyClaimedByOther"
                    /\ claimedByUserId(channels'[c]) = claimedByUserId(channels[c]))
          /\ (ForcedClaim(c, u) /\ SupportUser(u))
                => claimedByUserId(channels'[c]) = UserId(u)]_vars

\* a claim as C7 means it: not the forced variant of A
PlainClaim(c, u) == NonForcedClaim(c, u) \/ executeSlashCommand_B(c, u, "ticket-claim", TRUE)

\* C7: a support user's claim of an unclaimed ticket succeeds and records the user as
\* claimer; the same user's next claim only gets the private 'already claimed by you'
\* notice and changes nothing of the ticket: claimer, status label and control panel.
C7_ClaimIdempotent ==
    [][\A c \in Live, u \in Users :
          /\ (PlainClaim(c, u) /\ SupportUser(u) /\ claimedByUserId(channels[c]) = <<>>)
                => (/\ reply'.kind = "Claimed"
                    /\ claimedByUserId(channels'[c]) = UserId(u))
          /\ (PlainClaim(c, u) /\ SupportUser(u) /\ claimedByUserId(channels[c]) = UserId(u))
                => (/\ reply' = Ephemeral("AlreadyClaimedBySelf")
                    /\ channels' = channels)]_vars

C7_Witness == /\ reply.kind = "AlreadyClaimedBySelf"
              /\ \E c \in Live, u \in Users : claimedByUserId(channels[c]) = UserId(u)

CreatorOf(ch) == UserOfId(IF impl = "A" THEN MatchDigitsAfter(ch.topic, <<"UserID: ">>)
                          ELSE getTicketCreatorId(ch))
SendRevoked(ch) == ch.ow[CreatorOf(ch)].send = "deny"
\* the label the lock and claim state call for
DueLabel(ch) == IF SendRevoked(ch) THEN "Locked"
                ELSE IF claimedByUserId(ch) # <<>> THEN "In Progress" ELSE "Open"

\* C8: the status label shown on an open ticket is Locked whenever the creator's send
\* permission is revoked, otherwise In Progress when claimed and Open when unclaimed,
\* after any sequence of claim, unclaim, lock and unlock.
C8_StatusLabelDetermined ==
    \A c \in Live : (impl = "B" /\ channels[c].panel.exists)
                       => channels[c].panel.status = DueLabel(channels[c])

\* the ticket after a lock and then an unlock
LockedThenUnlocked(ch) ==
    IF impl = "A" THEN Locked_A(Locked_A(ch, TRUE).ch, FALSE).ch
    ELSE Locked_B(Locked_B(ch, TRUE).ch, FALSE).ch

\* C9: on every ticket, a lock followed by an unlock leaves an Open label Open and an
\* In Progress label In Progress, leaves the claimer unchanged, and leaves the creator
\* able to send messages. (A shows no label; a label already Locked is not restored.)
C9_LockUnlockRestores ==
    \A c \in Live :
        LET ch == channels[c]
            after == LockedThenUnlocked(ch)
        IN  /\ ch.panel.status \in {"Open", "In Progress"} => after.panel.status = ch.panel.status
            /\ claimedByUserId(after) = claimedByUserId(ch)
            /\ after.panel.claimedBy = ch.panel.claimedBy
            /\ CanSend(after, CreatorOf(ch))

\* a claimed ticket just unlocked, on which a lock and an unlock both take effect
C9_Witness == /\ reply.kind = "Unlocked"
              /\ \E c \in Live : /\ channels[c].panel.status = "In Progress"
                                 /\ claimedByUserId(channels[c]) # <<>>
                                 /\ ~SendRevoked(channels[c])
                                 /\ SendRevoked(Locked_B(channels[c], TRUE).ch)
                                 /\ ~SendRevoked(LockedThenUnlocked(channels[c]))

----------------------------------------------------------------------------
(* C19 - C20 *)

\* the principals the overwrites of the channel let see it
AccessList(ch) == {p \in Principals : ch.ow[p].present /\ ch.ow[p].view = "allow"}
Entitled(ch) == {ch.creator, SupportRole, "bot"}

\* the ticket as its creation left it is seen by the creator, the support role and the
\* bot and by nobody else
CreatedForThree ==
    \A c \in Live : /\ AccessList(channels[c]) = Entitled(channels[c])
                    /\ channels[c].ow["everyone"].view = "deny"

AccessKept == \A c \in Live : Entitled(channels[c]) \subseteq AccessList(channels[c])

\* C19: a ticket just created is visible to exactly its creator, the support role and
\* the bot, and as long as it is open these three stay on its access list, whatever
\* add-user and remove-user did and whoever they named.
C19_AccessKept == CreatedForThree /\ []AccessKept

\* an add-user or remove-user command of u naming target
UserCommandBy(c, u, target) ==
    \/ \E isAdd, ok \in BOOLEAN : ticketUserCommand_A(c, u, target, isAdd, ok)
    \/ \E isAdd \in BOOLEAN, ext \in CommandOutcomes :
          ticketUserCommand_B(c, u, target, isAdd, TRUE, ext)

\* C20: add-user and remove-user leave the claimer and the status label of the ticket as
\* they are, and after either of them the creator of a locked ticket still cannot send
\* messages, whoever the command named.
C20_UserCommandsKeepLock ==
    [][\A c \in Live, u \in Users, target \in OpTargets :
          UserCommandBy(c, u, target) =>
              /\ claimedByUserId(channels'[c]) = claimedByUserId(channels[c])
              /\ channels'[c].panel.status = channels[c].panel.status
              /\ channels[c].ow[channels[c].creator].send = "deny"
                    => ~CanSend(channels'[c], channels[c].creator)]_vars

----------------------------------------------------------------------------
(* Staff operations on a ticket whose control panel may be gone *)

\* the ticket a creation leaves: with its welcome message, or without it when the post
\* of the welcome message failed
InitPanel ==
    \E creator \in Creators, panelPosted \in BOOLEAN :
        /\ impl \in Impls
        /\ store = ConfiguredStore
        /\ channels = << IF impl = "A"
                         THEN NewTicket_A(<<>>, ConfiguredStore["g1"], creator, TopicA,
                                          IF panelPosted THEN WelcomeMessage_A ELSE NoPanel)
                         ELSE NewTicket_B(ConfiguredStore["g1"], creator, TopicA, <<"help">>,
                                          IF panelPosted THEN WelcomeMessage_B ELSE NoPanel) >>
        /\ modals = EmptyBag
        /\ prompts = {}
        /\ cooldowns = [u \in Users |-> 0]
        /\ timers = {}
        /\ now = 0
        /\ inflight = NoneInFlight
        /\ reply = NoReply

SpecPanel == InitPanel /\ [][NextLife]_vars

----------------------------------------------------------------------------
(* C21 *)

\* a /ticket-lock (lock) or /ticket-unlock command of u
LockCommandBy(c, u, lock) ==
    \/ ticketLockCommand_A(c, u, lock, TRUE)
    \/ /\ Privileged(u)
       /\ executeSlashCommand_B(c, u, IF lock THEN "ticket-lock" ELSE "ticket-unlock", TRUE)

\* C21: on a ticket whose control panel cannot be found, a lock or unlock still sets the
\* creator's send permission, leaves the status display as it was, and (where the
\* operation looks for the panel) answers that the control panel was not found.
C21_LockWithoutPanel ==
    [][\A c \in Live, u \in Users, lock \in BOOLEAN :
          (LockCommandBy(c, u, lock) /\ ~channels[c].panel.exists) =>
              /\ channels'[c].ow[channels[c].creator].send = IF lock THEN "deny" ELSE "allow"
              /\ channels'[c].panel = channels[c].panel
              /\ impl = "B" => reply'.kind = "PanelMissing"]_vars

----------------------------------------------------------------------------
(* C22 *)

\* the record of a guild right after a reset
ResetRecord == [DefaultConfig EXCEPT !.present = TRUE]

\* a reset clears the category, the logs channel, the support role and the topics of the
\* guild's record, which stays the record of that guild, and touches no other guild
ResetClears ==
    ticketConfigReset_A("g1", TRUE, TRUE) =>
        /\ store'["g1"].present
        /\ store'["g1"].categoryId = Null
        /\ store'["g1"].supportRoleId = Null
        /\ store'["g1"].logsChannelId = Null
        /\ store'["g1"].ticketTopics = <<>>
        /\ \A g \in Guilds \ {"g1"} : store'[g] = store[g]

\* a step of the creation flow of u for the topic value tv
CreationAttempt(u, tv) ==
    \/ showModal_A(u, tv, TRUE)
    \/ handleTicketCreation_A(u, tv, TRUE, "ok")
    \/ handleSelectMenuInteraction_B(u, tv, TRUE)
    \/ \E sj \in Subjects : handleModalSubmit_B(u, tv, sj, TRUE, "ok")

AttemptAfterResetRefused ==
    \A u \in Creators, tv \in PanelValues :
        (store["g1"] = ResetRecord /\ CreationAttempt(u, tv))
            => (reply'.kind = "NotConfigured" /\ channels' = channels /\ modals' \sqsubseteq modals)

\* C22: a reset clears categoryId, supportRoleId, logsChannelId and the topic list of the
\* guild's record, whatever it held, and keeps the record under its guild; every creation
\* attempt in the guild while the record is as the reset left it fails with NotConfigured.
C22_ResetThenNotConfigured == [][ResetClears /\ AttemptAfterResetRefused]_vars

----------------------------------------------------------------------------
(* Configuration commands that overlap: each reads the store, then writes it *)

\* A: /ticket-config naming one or more of its options
Patches_A == {[op |-> "patch", update |-> u] : u \in {v \in ConfigUpdates : DOMAIN v # {}
                                                                        /\ WellFormedUpdate(v)}}
\* A: the patches and /ticket-topic add
Commands_A == Patches_A \cup {[op |-> "topic", raw |-> r] : r \in {<<"a">>, <<"b", "-">>}}
\* B: /ticket-config (all three options) and /ticket-topic add
Commands_B == {[op |-> "config", category |-> c] : c \in Categories}
              \cup {[op |-> "topic", raw |-> r] : r \in {<<"a">>, <<"b", "-">>}}

\* the fields of the guild's record a command names
FieldsOf(cmd) == IF cmd.op = "patch" THEN DOMAIN cmd.update
                 ELSE IF cmd.op = "config"
                 THEN {"categoryId", "logsChannelId", "supportRoleId"}
                 ELSE {"ticketTopics"}

\* A part_000 85: getGuildConfig; B part_001 103, 161: readConfig
commandRead(p, cmd) ==
    /\ inflight[p].phase = "idle"
    /\ cmd \in IF impl = "A" THEN Commands_A ELSE Commands_B
    /\ store' = IF impl = "A" THEN UpsertOnRead(store, "g1", TRUE) ELSE store
    /\ inflight' = [inflight EXCEPT ![p] = [phase |-> "read", cmd |-> cmd,
                                            config |-> readConfig(store, TRUE)]]
    /\ UNCHANGED <<impl, channels, modals, prompts, cooldowns, timers, now, reply>>

\* A part_000 210-224: what /ticket-topic add makes of the record it read
TopicAdded_A(guildConfig, raw) ==
    LET value == sanitizeValue_A(raw)
        newTopic == [label |-> "General", value |-> value,
                     description |-> DefaultDescription, emoji |-> Null]
    IN  IF HasValue(guildConfig.ticketTopics, value)
        THEN [write |-> FALSE, kind |-> "DuplicateTopicKey"]
        ELSE [write |-> TRUE, kind |-> "TopicAdded",
              config |-> [guildConfig EXCEPT !.ticketTopics = Append(@, newTopic)]]

\* B part_001 176-197: what /ticket-topic add makes of the configuration it read
TopicAdded_B(config, g, raw) ==
    LET guildConfig == config[g]
        value == sanitizeValue_B(raw)
        newTopic == [label |-> "General", value |-> value,
                     description |-> DefaultDescription, emoji |-> Null]
    IN  IF ~guildConfig.present \/ guildConfig.categoryId = Null
        THEN [write |-> FALSE, kind |-> "NotConfigured"]
        ELSE IF value = <<>> THEN [write |-> FALSE, kind |-> "InvalidTopicKey"]
        ELSE IF HasValue(guildConfig.ticketTopics, value)
        THEN [write |-> FALSE, kind |-> "DuplicateTopicKey"]
        ELSE IF Len(guildConfig.ticketTopics) >= TopicLimit
        THEN [write |-> FALSE, kind |-> "TopicLimitExceeded"]
        ELSE [write |-> TRUE, kind |-> "TopicAdded",
              config |-> [config EXCEPT ![g].ticketTopics = Append(@, newTopic)]]

\* B part_001 105-114: what /ticket-config makes of the configuration it read
Configured_B(config, g, category) ==
    LET base == IF config[g].present THEN config[g]
                ELSE [DefaultConfig EXCEPT !.present = TRUE]
    IN  [config EXCEPT ![g] = [base EXCEPT !.categoryId = category,
                                           !.logsChannelId = LogsChannel,
                                           !.supportRoleId = SupportRole]]

\* A part_000 117: updateGuildConfig, one $set, and 223: setGuildConfig of the record as
\* it was read and then changed; B part_001 114, 195: writeConfig of the whole file as
\* it was read and then changed
commandWrite(p) ==
    /\ inflight[p].phase = "read"
    /\ LET cmd == inflight[p].cmd
           read == inflight[p].config
           added == IF impl = "A" THEN TopicAdded_A(getGuildConfig(read, "g1", TRUE), cmd.raw)
                    ELSE TopicAdded_B(read, "g1", cmd.raw)
           kind == IF cmd.op = "topic" THEN added.kind ELSE "ConfigUpdated"
       IN  /\ store' = IF cmd.op = "patch"
                       THEN updateGuildConfig(store, "g1", cmd.update, TRUE)
                       ELSE IF cmd.op = "config"
                       THEN writeConfig(store, Configured_B(read, "g1", cmd.category), TRUE)
                       ELSE IF ~added.write THEN store
                       ELSE IF impl = "A" THEN setGuildConfig(store, "g1", added.config, TRUE)
                       ELSE writeConfig(store, added.config, TRUE)
           /\ reply' = Ephemeral(kind)
           /\ inflight' = [inflight EXCEPT ![p] = [phase |-> "done", cmd |-> cmd,
                                                   kind |-> kind]]
    /\ UNCHANGED <<impl, channels, modals, prompts, cooldowns, timers, now>>

NextOverlap ==
    \/ \E p \in Procs, cmd \in Commands_A \cup Commands_B : commandRead(p, cmd)
    \/ \E p \in Procs : commandWrite(p)

SpecOverlap == InitOrder /\ [][NextOverlap]_vars

----------------------------------------------------------------------------
(* C23 *)

\* the record holds what the command set
Holds(record, cmd) ==
    IF cmd.op = "patch" THEN \A f \in DOMAIN cmd.update : record[f] = cmd.update[f]
    ELSE IF cmd.op = "config"
    THEN /\ record.categoryId = cmd.category
         /\ record.logsChannelId = LogsChannel
         /\ record.supportRoleId = SupportRole
    ELSE HasValue(record.ticketTopics,
                  IF impl = "A" THEN sanitizeValue_A(cmd.raw) ELSE sanitizeValue_B(cmd.raw))

Succeeded(p) == inflight[p].phase = "done" /\ inflight[p].kind \in {"ConfigUpdated", "TopicAdded"}

\* a write leaves the fields its command does not name as they were
WriteKeepsOtherFields ==
    \A p \in Procs :
        commandWrite(p) =>
            /\ \A f \in {"categoryId", "logsChannelId", "supportRoleId", "ticketTopics"}
                        \ FieldsOf(inflight[p].cmd) : store'["g1"][f] = store["g1"][f]
            /\ Succeeded(p)' => Holds(store'["g1"], inflight[p].cmd)

\* two commands that both succeeded and name disjoint fields are both in the record
BothPresent ==
    (Succeeded("p1") /\ Succeeded("p2")
       /\ FieldsOf(inflight["p1"].cmd) \cap FieldsOf(inflight["p2"].cmd) = {})
        => (Holds(store["g1"], inflight["p1"].cmd) /\ Holds(store["g1"], inflight["p2"].cmd))

\* C23: a configuration command changes the fields it names and no other field of the
\* guild's record, and when two commands naming disjoint fields overlap in any order of
\* their reads and writes, the record holds both updates afterwards.
C23_PatchesCompose == []BothPresent /\ [][WriteKeepsOtherFields]_vars

----------------------------------------------------------------------------
(* A member opens tickets, a support user closes them, time passes *)

NextCool ==
    \/ showModal_A("u1", <<"a">>, TRUE)
    \/ handleTicketCreation_A("u1", <<"a">>, TRUE, "ok")
    \/ handleSelectMenuInteraction_B("u1", <<"a">>, TRUE)
    \/ \E sj \in Subjects : handleModalSubmit_B("u1", <<"a">>, sj, TRUE, "ok")
    \/ \E t \in timers : cooldownTimer_B(t)
    \/ Tick
    \/ \E c \in Live : ticketCloseCommand_A(c, "s1", FALSE, TRUE, AllSucceed)
    \/ \E c \in Live : handleCloseButton_B(c, "s1", TRUE)
    \/ \E c \in Live : closeTicket_B(c, "s1", TRUE, AllSucceed)
    \/ \E c \in ChannelIds : deleteTimer(c)

SpecCool == InitConfigured /\ [][NextCool]_vars

----------------------------------------------------------------------------
(* C24 *)

\* the user's last creation started a cooldown that has not run out
InCooldown(u) == cooldowns[u] # 0 /\ now < cooldowns[u]

\* the attempt passes the preconditions that come before the cooldown
PassesEarlier(u, tv) ==
    ~FailsNotConfigured /\ ~FailsUnknownTopic(tv) /\ ~FailsDuplicateTicket(u)

\* C24: while the cooldown started by a user's last creation runs, every creation attempt
\* of that user that passes the earlier preconditions is answered CooldownActive and
\* creates no channel; once the cooldown entry is gone no attempt is answered
\* CooldownActive.
C24_CooldownEnforced ==
    [][\A u \in Creators, tv \in PanelValues :
          CreationAttempt(u, tv) =>
              /\ (InCooldown(u) /\ PassesEarlier(u, tv))
                    => (reply'.kind = "CooldownActive" /\ channels' = channels)
              /\ cooldowns[u] = 0 => reply'.kind # "CooldownActive"]_vars

----------------------------------------------------------------------------
(* Creation steps and the removal of the topic, in any order *)

NextRace ==
    \/ NextCreate
    \/ ticketTopicRemove_A("g1", <<"a">>, TRUE, TRUE)
    \/ ticketTopicRemove_B("g1", <<"a">>, TRUE, TRUE, TRUE)

SpecRace == InitConfigured /\ [][NextRace]_vars

----------------------------------------------------------------------------
(* C25 *)

\* C25: in a configured guild, every step of a creation flow for a topic that is no
\* longer on the guild's list, whether its panel or its form is older than the removal,
\* is answered UnknownTopic, creates no channel and opens no form.
C25_RemovedTopicRefused ==
    [][\A u \in Creators, tv \in PanelValues :
          (CreationAttempt(u, tv) /\ ~FailsNotConfigured /\ FailsUnknownTopic(tv))
             => /\ reply'.kind = "UnknownTopic"
                /\ channels' = channels
                /\ modals' \sqsubseteq modals]_vars

----------------------------------------------------------------------------
(* Closing in a guild that has an open ticket and a channel that is no ticket *)

\* a public text channel somebody made by hand
OtherChannel(name, parent) ==
    NewChannel(name, parent, <<>>, [p \in Principals |-> NoOverwrite], NoPanel, Null)
OtherNames == {<<"x">>, TicketPrefix \o <<"x">>}

InitOther ==
    \E name \in OtherNames, parent \in Categories :
        /\ impl \in Impls
        /\ store = ConfiguredStore
        /\ now = 0
        /\ inflight = NoneInFlight
        /\ channels = << IF impl = "A"
                         THEN NewTicket_A(<<>>, ConfiguredStore["g1"], "u1", TopicA,
                                          WelcomeMessage_A)
                         ELSE NewTicket_B(ConfiguredStore["g1"], "u1", TopicA, <<"help">>,
                                          WelcomeMessage_B),
                         OtherChannel(name, parent) >>
        /\ modals = EmptyBag
        /\ prompts = {}
        /\ cooldowns = [u \in Users |-> 0]
        /\ timers = {}
        /\ reply = NoReply

NextOther == NextCloseOf({AllSucceed})

SpecOther == InitOther /\ [][NextOther]_vars

----------------------------------------------------------------------------
(* C26 *)

\* the channels the creation flow did not create
NotTickets == {c \in ChannelIds : channels[c].creator = Null}

\* no close ever generated a transcript of such a channel, sent anything for it or
\* scheduled its deletion
Untouched(ch) ==
    /\ ch.exists
    /\ ch.transcripts = 0 /\ ch.logMsgs = 0 /\ ch.dms = 0 /\ ch.notices = 0
    /\ ch.warnings = 0 /\ ch.delTimers = 0

CloseRefusedOutsideTickets ==
    \A c \in NotTickets, u \in Users :
        CloseBy(c, u) => (reply'.kind = "NotATicketChannel" /\ channels' = channels
                          /\ prompts' = prompts)

\* C26: a close invoked in a channel that the creation flow did not create is answered
\* NotATicketChannel; no transcript of the channel is generated, nothing is sent and the
\* channel is never deleted, whatever its name and its category.
C26_CloseOnlyTickets ==
    [](\A c \in NotTickets : Untouched(channels[c])) /\ [][CloseRefusedOutsideTickets]_vars

----------------------------------------------------------------------------
(* A close whose transcript cannot be generated *)

\* staff operations on the ticket, closes that succeed and closes whose transcript fails
AbortOutcomes == {AllSucceed, OneFails("transcript")}
NextAbort == NextLife \/ NextCloseOf(AbortOutcomes)

SpecAbort == InitTicket /\ [][NextAbort]_vars

\* a confirmed close of ticket c by u in which createTranscript throws and every
\* other call succeeds
TranscriptFails(c, u) ==
    /\ c \in Live
    /\ IF impl = "A" THEN StartsWith(channels[c].name, TicketPrefix)
                     ELSE isTicketChannel(channels[c], store["g1"])
    /\ \/ closeFinal_A(c, u, TRUE, OneFails("transcript"))
       \/ \E silent \in BOOLEAN :
             ticketCloseCommand_A(c, u, silent, TRUE, OneFails("transcript"))
       \/ closeTicket_B(c, u, TRUE, OneFails("transcript"))

\* the channel apart from the count of error messages posted in it
WithoutErrors(ch) == [ch EXCEPT !.errors = 0]

\* C27: when the transcript cannot be generated during a confirmed close, the close
\* stops there and the failure is reported: no transcript, no logs-channel message, no
\* direct message and no closing notice are produced, no deletion is scheduled, the
\* channel stays, and its topic (the claim), its permission overwrites (the lock) and
\* its control panel are as they were.
C27_TranscriptFailureAborts ==
    [][\A c \in ChannelIds, u \in Users :
          TranscriptFails(c, u) =>
              /\ reply'.kind = "ExternalCallFailed"
              /\ reply'.vis # "none"
              /\ WithoutErrors(channels'[c]) = WithoutErrors(channels[c])
              /\ channels'[c].exists]_vars

\* a claimed and locked ticket whose close has just failed for want of a transcript
C27_Witness ==
    /\ reply.kind = "ExternalCallFailed"
    /\ \E c \in Live :
          /\ channels[c].transcripts = 0 /\ channels[c].delTimers = 0
          /\ channels[c].logMsgs = 0 /\ channels[c].dms = 0
          /\ claimedByUserId(channels[c]) # <<>>

----------------------------------------------------------------------------
(* Creation with failing Discord calls *)

NextOutcome ==
    \/ \E u \in Creators, tv \in PanelValues : showModal_A(u, tv, TRUE)
    \/ \E u \in Creators, tv \in PanelValues, ext \in CreateOutcomes :
          handleTicketCreation_A(u, tv, TRUE, ext)
    \/ \E u \in Creators, tv \in PanelValues : handleSelectMenuInteraction_B(u, tv, TRUE)
    \/ \E u \in Creators, tv \in PanelValues, sj \in Subjects, ext \in CreateOutcomes :
          handleModalSubmit_B(u, tv, sj, TRUE, ext)
    \/ \E t \in timers : cooldownTimer_B(t)
    \/ Tick

SpecOutcome == InitConfigured /\ [][NextOutcome]_vars

\* a creation for u that gets as far as the 'Ticket Opened' entry, whose send to the
\* logs channel fails (the config.json build sends no such entry)
OpenedEntryFails(u, tv) ==
    /\ handleTicketCreation_A(u, tv, TRUE, "log")
    /\ store["g1"].logsChannelId # Null
    /\ Len(channels') > Len(channels)

\* C28: when the 'Ticket Opened' entry cannot be posted to the logs channel during a
\* creation, a warning is posted in the new ticket channel, the channel remains and
\* the requester is told that the ticket was created.
C28_OpenedEntryFailureWarned ==
    [][\A u \in Creators, tv \in PanelValues :
          OpenedEntryFails(u, tv) =>
              LET ticketChannel == channels'[Len(channels')]
              IN  /\ ticketChannel.opened = 0
                  /\ ticketChannel.warnings = 1
                  /\ ticketChannel.exists
                  /\ reply'.kind = "TicketCreated"]_vars

\* the part of C28 the code does: the failure is caught, the channel remains and the
\* requester is told that the ticket was created
C28_OpenedEntryFailureCaught ==
    [][\A u \in Creators, tv \in PanelValues :
          OpenedEntryFails(u, tv) =>
              LET ticketChannel == channels'[Len(channels')]
              IN  /\ ticketChannel.opened = 0
                  /\ ticketChannel.exists
                  /\ reply'.kind = "TicketCreated"]_vars

\* a ticket just created whose 'Ticket Opened' entry is missing from the logs channel
C28_Witness ==
    /\ impl = "A"
    /\ reply.kind = "TicketCreated"
    /\ \E c \in Live : channels[c].opened = 0 /\ channels[c].panel # NoPanel

----------------------------------------------------------------------------
(* Ticket numbers of the MongoDB build *)

\* names typed into /ticket-rename: a ticket name with a number of its own choosing, and
\* a name that is no ticket name
NumberNames == {TicketPrefix \o <<"9">>, <<"u", "b">>}
\* a category id that names no category of the guild
MissingCategory == "cat0"
\* the largest ticket number looked for in a name
MaxNumber == 12

InitNumber == InitConfigured /\ impl = "A"

\* creations one at a time (a form is opened when no other is open), renames, one
\* close of the first ticket with its deletion, and /ticket-config moving new tickets
\* to another category
NextNumber ==
    \/ \E u \in Creators : modals = EmptyBag /\ showModal_A(u, <<"a">>, TRUE)
    \/ \E u \in Creators : handleTicketCreation_A(u, <<"a">>, TRUE, "ok")
    \/ \E c \in Live, n \in NumberNames : ticketRenameCommand_A(c, "s1", n, TRUE)
    \/ \E c \in Worked : /\ channels[c].delTimers = 0
                         /\ ticketCloseCommand_A(c, "s1", TRUE, TRUE, AllSucceed)
    \/ \E c \in ChannelIds : deleteTimer(c)
    \/ ticketConfigUpdate_A("g1", [categoryId |-> "cat2"], TRUE, TRUE, TRUE)

SpecNumber == InitNumber /\ [][NextNumber]_vars

\* the ticket-named channels that exist in a category
TicketNamed(chs, cat) ==
    {c \in 1..Len(chs) : chs[c].exists /\ chs[c].parent = cat
                         /\ StartsWith(chs[c].name, TicketPrefix)}
\* the largest k for which a channel of the category is named ticket-k; 0 without one
LargestSuffix(chs, cat) ==
    Max({0} \cup {k \in 1..MaxNumber :
                    \E c \in TicketNamed(chs, cat) : chs[c].name = TicketPrefix \o ToDigits(k)})

NumberAsStated ==
    \A cat \in Categories \cup {MissingCategory} :
        getNextTicketNumber(channels, cat) =
            IF cat = MissingCategory THEN 1 ELSE 1 + LargestSuffix(channels, cat)

NameIsNew ==
    \A u \in Creators :
        handleTicketCreation_A(u, <<"a">>, TRUE, "ok") /\ Len(channels') > Len(channels) =>
            LET cat == store["g1"].categoryId
                ticketChannel == channels'[Len(channels')]
            IN  /\ ticketChannel.name = TicketPrefix \o ToDigits(1 + LargestSuffix(channels, cat))
                /\ ticketChannel.parent = cat
                /\ \A c \in Live : channels[c].parent = cat =>
                                      channels[c].name # ticketChannel.name

----------------------------------------------------------------------------
(* How a failed request is reported *)

\* a staff operation or a close step requested by u in channel c
Request(c, u) ==
    \/ \E recent \in BOOLEAN : claimButton_A(c, u, TRUE, recent)
    \/ \E force, recent \in BOOLEAN : ticketClaimCommand_A(c, u, force, TRUE, recent)
    \/ \E lockState \in BOOLEAN : ticketLockCommand_A(c, u, lockState, TRUE)
    \/ \E id \in staffButtons : handleButtonInteraction_B(c, u, id, TRUE)
    \/ \E cmd \in staffTicketCommands : executeSlashCommand_B(c, u, cmd, TRUE)
    \/ handleCloseTicketConfirm_A(c, u, TRUE)
    \/ handleCloseButton_B(c, u, TRUE)
    \/ \E out \in AbortOutcomes :
          \/ closeFinal_A(c, u, TRUE, out)
          \/ \E silent \in BOOLEAN : ticketCloseCommand_A(c, u, silent, TRUE, out)
          \/ closeTicket_B(c, u, TRUE, out)

\* the answers of a request that did what was asked
Achieved == Done \cup {"ConfirmClose", "TicketClosed"}

\* C30: a request that fails produces one message, and that message is shown to the
\* requester only: it is neither missing nor posted in the channel.
C30_FailuresPrivate ==
    [][\A c \in ChannelIds, u \in Users :
          Request(c, u) /\ reply'.kind \notin Achieved => reply'.vis = "ephemeral"]_vars

----------------------------------------------------------------------------
(* Repeated closes of one ticket *)

\* C31: however the close requests on one ticket interleave, the terminal sequence runs
\* at most once for it: at most one transcript is generated, at most one message goes
\* to the logs channel and at most one deletion is scheduled.
C31_ClosedAtMostOnce ==
    \A c \in ChannelIds :
        /\ channels[c].transcripts <= 1
        /\ channels[c].logMsgs <= 1
        /\ channels[c].delTimers <= 1

----------------------------------------------------------------------------
(* Staff operations during the delay before the deletion *)

\* the closing notice of the ticket has been posted and the channel is not yet deleted
Closing(c) == c \in Live /\ channels[c].notices > 0

\* what claim, unclaim, lock, unlock, rename, add-user and remove-user act on
TicketState(ch) == [name |-> ch.name, topic |-> ch.topic, ow |-> ch.ow, panel |-> ch.panel]

\* C32: once the closing notice of a ticket has been posted, no claim, unclaim, lock,
\* unlock, rename, add-user or remove-user takes effect on it before the channel is
\* deleted: its name, topic (the claim of the MongoDB build), permission overwrites (the
\* lock, the added users) and control panel (claimer, status, buttons) stay as they
\* were.
C32_ClosedIsFinal ==
    [][\A c \in ChannelIds :
          Closing(c) => TicketState(channels'[c]) = TicketState(channels[c])]_vars

----------------------------------------------------------------------------
(* C33 *)

Ids == {"categoryId", "supportRoleId", "logsChannelId"}

\* C33: the write of a topic command leaves categoryId, supportRoleId and logsChannelId
\* of the guild's record as they are at that moment, whatever configuration command
\* wrote them between the topic command's read and its write.
C33_TopicCommandKeepsIds ==
    [][\A p \in Procs :
          commandWrite(p) /\ inflight[p].cmd.op = "topic" =>
              \A f \in Ids : store'["g1"][f] = store["g1"][f]]_vars

----------------------------------------------------------------------------
(* Creations of the MongoDB build that overlap *)

\* A 106-139: handleTicketCreation from the configuration read up to the call of
\* guild.channels.create: the tests, the ticket number and the channel asked for
creationChecked_A(p, user, topicValue) ==
    /\ impl = "A"
    /\ inflight[p].phase = "idle"
    /\ BagIn(<<user, topicValue>>, modals)
    /\ modals' = modals (-) SetToBag({<<user, topicValue>>})
    /\ store' = UpsertOnRead(store, "g1", TRUE)
    /\ LET config == getGuildConfig(store, "g1", TRUE)
           topic == FindTopic(config.ticketTopics, topicValue)
       IN  IF config.categoryId = Null \/ config.supportRoleId = Null
           THEN reply' = Ephemeral("NotConfigured") /\ inflight' = inflight
           ELSE IF ~HasValue(config.ticketTopics, topicValue)
           THEN reply' = Ephemeral("UnknownTopic") /\ inflight' = inflight
           ELSE IF ExistingTickets_A(channels, user) # {}
           THEN reply' = Ephemeral("DuplicateTicket") /\ inflight' = inflight
           ELSE /\ reply' = reply
                /\ inflight' = [inflight EXCEPT ![p] =
                                   [phase |-> "create",
                                    ticketChannel |-> LogOpened_A(
                                        NewTicket_A(channels, config, user, topic,
                                                    WelcomeMessage_A), config, "ok")]]
    /\ UNCHANGED <<impl, channels, prompts, cooldowns, timers, now>>

\* A 140-236: guild.channels.create resolves: the channel exists, the welcome message is
\* posted and the requester is told
channelCreated_A(p) ==
    /\ impl = "A"
    /\ inflight[p].phase = "create"
    /\ Len(channels) < MaxChannels
    /\ channels' = Append(channels, inflight[p].ticketChannel)
    /\ reply' = Ephemeral("TicketCreated")
    /\ inflight' = [inflight EXCEPT ![p] = Idle]
    /\ UNCHANGED <<impl, store, modals, prompts, cooldowns, timers, now>>

NextTogether ==
    \/ \E u \in Creators : showModal_A(u, <<"a">>, TRUE)
    \/ \E p \in Procs, u \in Creators : creationChecked_A(p, u, <<"a">>)
    \/ \E p \in Procs : channelCreated_A(p)
    \/ \E c \in Live : /\ channels[c].delTimers = 0
                       /\ ticketCloseCommand_A(c, "s1", TRUE, TRUE, AllSucceed)
    \/ \E c \in ChannelIds : deleteTimer(c)

SpecTogether == InitNumber /\ [][NextTogether]_vars

\* C34: no two ticket channels of different users that exist at the same time in one
\* category have the same ticket-n name, however the creations interleave.
C34_NumbersDistinct ==
    \A c, d \in Live :
        (/\ channels[c].creator # channels[d].creator
         /\ channels[c].parent = channels[d].parent
         /\ StartsWith(channels[c].name, TicketPrefix))
            => channels[c].name # channels[d].name

----------------------------------------------------------------------------
(* Cooldown entries and their timers *)

\* as NextCool, with every timer firing at the time it was set for: the clock does not
\* pass a timer that is due
NextPunctual ==
    \/ showModal_A("u1", <<"a">>, TRUE)
    \/ handleTicketCreation_A("u1", <<"a">>, TRUE, "ok")
    \/ handleSelectMenuInteraction_B("u1", <<"a">>, TRUE)
    \/ \E sj \in Subjects : handleModalSubmit_B("u1", <<"a">>, sj, TRUE, "ok")
    \/ \E t \in timers : cooldownTimer_B(t)
    \/ (\A t \in timers : now < t[2]) /\ Tick
    \/ \E c \in Live : ticketCloseCommand_A(c, "s1", FALSE, TRUE, AllSucceed)
    \/ \E c \in Live : handleCloseButton_B(c, "s1", TRUE)
    \/ \E c \in Live : closeTicket_B(c, "s1", TRUE, AllSucceed)
    \/ \E c \in ChannelIds : deleteTimer(c)

SpecPunctual == InitConfigured /\ [][NextPunctual]_vars

\* an entry that is present has not expired
EntriesLive == \A u \in Users : cooldowns[u] # 0 => now <= cooldowns[u]

\* an entry is removed at or after the expiry it holds
RemovedAtExpiry ==
    \A u \in Users : (cooldowns[u] # 0 /\ cooldowns'[u] = 0) => cooldowns[u] <= now

\* C35: a user's cooldown entry is removed only at or after the expiry time it holds (the
\* timer of an earlier creation does not remove the entry of a later one before its
\* time), and an entry that is present has not expired.
C35_CooldownRemovedAtExpiry == []EntriesLive /\ [][RemovedAtExpiry]_vars


----------------------------------------------------------------------------
(* The configuration commands of two guilds, with a store whose calls can fail *)

\* the values typed for a topic in the first guild and in the second
SomeRaw == {<<"a">>, <<"b", "-">>}
FewRaw == {<<"a">>}
\* a partial update, and one that sets the three identifiers
SomeUpdates == {[categoryId |-> "cat1"],
                [categoryId |-> "cat2", logsChannelId |-> LogsChannel,
                 supportRoleId |-> SupportRole]}

\* every read and every write of the store either succeeds or fails
NextFaulty ==
    \/ \E l \in Labels, r \in SomeRaw, rd, wr \in BOOLEAN :
          ticketTopicAdd_A("g1", l, r, DescriptionOf("A"), rd, wr)
    \/ \E l \in Labels, r \in FewRaw, rd, wr \in BOOLEAN :
          ticketTopicAdd_A("g2", l, r, DescriptionOf("A"), rd, wr)
    \/ \E g \in Guilds, v \in {<<"a">>, <<"b">>}, rd, wr \in BOOLEAN :
          ticketTopicRemove_A(g, v, rd, wr)
    \/ \E g \in Guilds, rd, wr \in BOOLEAN : ticketConfigReset_A(g, rd, wr)
    \/ \E g \in Guilds, u \in SomeUpdates, rd, wr \in BOOLEAN :
          ticketConfigUpdate_A(g, u, TRUE, rd, wr)
    \/ \E g \in Guilds, c \in Categories, rd, wr \in BOOLEAN :
          ticketConfig_B(g, c, TRUE, rd, wr)
    \/ \E l \in Labels, r \in SomeRaw, rd1, rd2, wr \in BOOLEAN :
          ticketTopicAdd_B("g1", l, r, DescriptionOf("B"), rd1, rd2, wr)
    \/ \E l \in Labels, r \in FewRaw, rd1, rd2, wr \in BOOLEAN :
          ticketTopicAdd_B("g2", l, r, DescriptionOf("B"), rd1, rd2, wr)
    \/ \E g \in Guilds, v \in {<<"a">>, <<"b">>}, rd1, rd2, wr \in BOOLEAN :
          ticketTopicRemove_B(g, v, rd1, rd2, wr)

SpecFaulty == InitEmpty /\ [][NextFaulty]_vars

\* the command answered with a success is in the store afterwards
AddStored ==
    /\ \A g \in Guilds, l \in Labels, r \in SomeRaw, rd, wr \in BOOLEAN :
          ticketTopicAdd_A(g, l, r, DescriptionOf("A"), rd, wr) /\ reply'.kind = "TopicAdded"
             => HasValue(store'[g].ticketTopics, sanitizeValue_A(r))
    /\ \A g \in Guilds, l \in Labels, r \in SomeRaw, rd1, rd2, wr \in BOOLEAN :
          ticketTopicAdd_B(g, l, r, DescriptionOf("B"), rd1, rd2, wr) /\ reply'.kind = "TopicAdded"
             => HasValue(store'[g].ticketTopics, sanitizeValue_B(r))
RemoveStored ==
    /\ \A g \in Guilds, v \in {<<"a">>, <<"b">>}, rd, wr \in BOOLEAN :
          ticketTopicRemove_A(g, v, rd, wr) /\ reply'.kind = "TopicRemoved"
             => ~HasValue(store'[g].ticketTopics, v)
    /\ \A g \in Guilds, v \in {<<"a">>, <<"b">>}, rd1, rd2, wr \in BOOLEAN :
          ticketTopicRemove_B(g, v, rd1, rd2, wr) /\ reply'.kind = "TopicRemoved"
             => ~HasValue(store'[g].ticketTopics, v)
UpdateStored ==
    /\ \A g \in Guilds, u \in SomeUpdates, rd, wr \in BOOLEAN :
          ticketConfigUpdate_A(g, u, TRUE, rd, wr) /\ reply'.kind = "ConfigUpdated"
             => \A f \in DOMAIN u : store'[g][f] = u[f]
    /\ \A g \in Guilds, c \in Categories, rd, wr \in BOOLEAN :
          ticketConfig_B(g, c, TRUE, rd, wr) /\ reply'.kind = "ConfigUpdated"
             => /\ store'[g].categoryId = c
                /\ store'[g].logsChannelId = LogsChannel
                /\ store'[g].supportRoleId = SupportRole
ResetStored ==
    \A g \in Guilds, rd, wr \in BOOLEAN :
       ticketConfigReset_A(g, rd, wr) /\ reply'.kind = "ConfigReset"
          => store'[g] = ResetRecord

\* C36: a topic add, a topic remove, a configuration update or a reset is answered with a
\* success only if the change is in the store after the command.
C36_SuccessMeansStored ==
    [][AddStored /\ RemoveStored /\ UpdateStored /\ ResetStored]_vars

\* the three identifiers of guild g are the same before and after the step
IdsKept(g) == \A f \in Ids : store'[g][f] = store[g][f]

\* a topic add whose write succeeds appends the new topic to the stored list
AddAppends ==
    /\ \A g \in Guilds, l \in Labels, r \in SomeRaw, rd \in BOOLEAN :
          ticketTopicAdd_A(g, l, r, DescriptionOf("A"), rd, TRUE) /\ reply'.kind = "TopicAdded"
             => /\ store'[g].ticketTopics =
                      Append(store[g].ticketTopics,
                             [label |-> l, value |-> sanitizeValue_A(r),
                              description |-> DescriptionOf("A"), emoji |-> Null])
                /\ IdsKept(g)
    /\ \A g \in Guilds, l \in Labels, r \in SomeRaw, rd1, rd2 \in BOOLEAN :
          ticketTopicAdd_B(g, l, r, DescriptionOf("B"), rd1, rd2, TRUE) /\ reply'.kind = "TopicAdded"
             => /\ store'[g].ticketTopics =
                      Append(store[g].ticketTopics,
                             [label |-> l, value |-> sanitizeValue_B(r),
                              description |-> DefaultDescription, emoji |-> Null])
                /\ IdsKept(g)

\* a topic remove whose write succeeds deletes the entries with the value given
RemoveDeletes ==
    /\ \A g \in Guilds, v \in {<<"a">>, <<"b">>}, rd \in BOOLEAN :
          ticketTopicRemove_A(g, v, rd, TRUE) /\ reply'.kind = "TopicRemoved"
             => /\ store'[g].ticketTopics = WithoutValue(store[g].ticketTopics, v)
                /\ IdsKept(g)
    /\ \A g \in Guilds, v \in {<<"a">>, <<"b">>}, rd1, rd2 \in BOOLEAN :
          ticketTopicRemove_B(g, v, rd1, rd2, TRUE) /\ reply'.kind = "TopicRemoved"
             => /\ store'[g].ticketTopics = WithoutValue(store[g].ticketTopics, v)
                /\ IdsKept(g)

\* C37: a successful topic add changes the stored record only by appending the new topic
\* and a successful topic remove only by deleting the entries with the given value; the
\* topics stored before and the three identifiers are unchanged, also when the read that
\* precedes the write fails.
C37_TopicCommandChangesOnlyTopics == [][AddAppends /\ RemoveDeletes]_vars

----------------------------------------------------------------------------
(* The control row *)

\* the control row offers the button that undoes the ticket's state, and not the other
RowMatches(ch) ==
    /\ HasButton(ch, "ticket_unclaim") <=> claimedByUserId(ch) # <<>>
    /\ HasButton(ch, "ticket_claim") <=> claimedByUserId(ch) = <<>>
    /\ HasButton(ch, "ticket_unlock") <=> SendRevoked(ch)
    /\ HasButton(ch, "ticket_lock") <=> ~SendRevoked(ch)

\* C38: whenever a ticket's control panel exists its row offers Unclaim exactly when the
\* ticket is claimed and Claim otherwise, and Unlock exactly when the ticket is locked and
\* Lock otherwise, after any sequence of claim, unclaim, lock and unlock.
C38_RowMatchesState ==
    \A c \in Live : (impl = "B" /\ channels[c].panel.exists) => RowMatches(channels[c])

\* a configuration or topic command run in guild g
ConfigCommandIn(g) ==
    \/ \E l \in Labels, r \in SomeRaw, rd, wr \in BOOLEAN :
          ticketTopicAdd_A(g, l, r, DescriptionOf("A"), rd, wr)
    \/ \E v \in {<<"a">>, <<"b">>}, rd, wr \in BOOLEAN : ticketTopicRemove_A(g, v, rd, wr)
    \/ \E rd, wr \in BOOLEAN : ticketConfigReset_A(g, rd, wr)
    \/ \E u \in SomeUpdates, rd, wr \in BOOLEAN : ticketConfigUpdate_A(g, u, TRUE, rd, wr)
    \/ \E c \in Categories, rd, wr \in BOOLEAN : ticketConfig_B(g, c, TRUE, rd, wr)
    \/ \E l \in Labels, r \in SomeRaw, rd1, rd2, wr \in BOOLEAN :
          ticketTopicAdd_B(g, l, r, DescriptionOf("B"), rd1, rd2, wr)
    \/ \E v \in {<<"a">>, <<"b">>}, rd1, rd2, wr \in BOOLEAN :
          ticketTopicRemove_B(g, v, rd1, rd2, wr)

\* the records of the guilds other than g are the same before and after the step
OtherGuildsKept(g) == \A h \in Guilds \ {g} : store'[h] = store[h]

\* C39: a configuration or topic command run in one guild never changes the stored
\* configuration of another guild, also when a read of the store fails.
C39_GuildsIsolated == [][\A g \in Guilds : ConfigCommandIn(g) => OtherGuildsKept(g)]_vars

====
